---------------------------- MODULE Spec2Model ----------------------------
(***************************************************************************)
(* A model of area-color-viewer: the colour-frequency extractor           *)
(* (extract_colors.py) and the colour-space conversions (color_utils.py). *)
(*                                                                         *)
(* Spec        two calls of get_colors_from_image on one image, one with  *)
(*             verbose=True and one with verbose=False, pixel by pixel.    *)
(* SpecResize  the size computation of get_colors_from_image on images    *)
(*             over the pixel budget.                                      *)
(***************************************************************************)
EXTENDS Integers, Sequences, FiniteSets, TLC

VARIABLES
    image,          \* the decoded file: [w, h, data], pixel k is data[(k % Len(data)) + 1]
    returned,       \* verbose flag -> [called, colors]: the list that call returned
    pc,             \* "idle" | "loop": where the running call stands
    verbose,        \* the running call's verbose argument
    img,            \* the image the loop iterates: [w, h, resized]
    total,          \* len(pixels)
    i,              \* number of pixels the loop has consumed
    color_counts,   \* the Counter: a sequence of [hex, count] in insertion order
    stdout,         \* what print() has emitted, in order
    seen,           \* history: the pixel values the running (or last) call's loop consumed
    sample,         \* the argument a conversion function is applied to
    result,         \* what the conversions applied so far have returned, by name
    stage,          \* the conversions applied so far
    pts,            \* multiview page: the embedded records, [L, C, H, count, r, g, b]
    slider,         \* multiview page: the value of each range input, by element id
    filterL,        \* multiview page: [lo, hi] of the lightness filter
    filterC,        \* multiview page: [lo, hi] of the chroma filter
    filterH,        \* multiview page: [lo, hi] of the hue filter
    voxelBins,      \* multiview page: bins per axis
    densityThreshold, \* multiview page: least total count of a voxel that is shown
    showMode,       \* multiview page: "points" | "voxels" | "both"
    pendingRender,  \* multiview page: an animation frame is requested
    renderFrames,   \* multiview page: the requested render callbacks that have not run
    shown,          \* multiview page: the showMode the plots were drawn with
    selected,       \* multiview page: the set of selected point indices
    focusIdx,       \* multiview page: the focused point index, -1 for none
    hoverGuard,     \* multiview page: hover events are being ignored
    guardFrames,    \* multiview page: the requested callbacks that clear hoverGuard
    zoomTimer,      \* multiview page: a timeout of resetAll is pending
    filtered,       \* multiview page: indices into pts that pass the filters
    voxels,         \* multiview page: the voxels of the last render
    colorData,      \* tone map page: the embedded records, [L, C, H, count]
    lSlider,        \* tone map page: the value of the input lDivsSlider
    cSlider,        \* tone map page: the value of the input cDivsSlider
    lDivs,          \* tone map page: lightness divisions
    cDivs,          \* tone map page: chroma divisions
    bins,           \* tone map page: <<li, ci, hi>> -> count, for the populated sub-bins
    normCount,      \* tone map page: [num, den], the count that maps to full opacity
    maxGamutCCache, \* tone map page: <<li, hi>> -> the chroma maxGamutChroma returned
    cellGeom,       \* tone map page: the sub-bins that render drew, in order
    statsText,      \* tone map page: [bins, pixels] of the statistics line
    running,        \* tone map page: the function the running handler is in, or "idle"
    loop,           \* tone map page: [turns, bins, pixels]: the loop turns done there and render's totals
    sliceWidth,     \* slice viewer: half the width of the hue slice, in degrees
    minChroma,      \* slice viewer: the least chroma shown, in 10^-3
    currentHue,     \* slice viewer: the selected hue, in 10^-6 degree
    isDragging,     \* slice viewer: a drag on the wheel is going on
    inThrottle,     \* slice viewer: the flag of throttle(), undefined being FALSE
    throttleTimers, \* slice viewer: the pending timeouts that clear inThrottle
    plotted,        \* slice viewer: [hue, width, chroma] the scatter plot was last drawn with
    args,           \* viz.py: [images, output]: the parsed command line, output None when -o is absent
    fs,             \* viz.py: the paths that exist when main starts
    valid_images,   \* viz.py: the list main collects
    output_files,   \* viz.py: the list of the paths process_image returned
    stderr,         \* viz.py: the lines printed to sys.stderr
    written,        \* viz.py: output path -> the image whose scatter plot the file holds
    status,         \* viz.py: <<>> while main runs, then the exit status in a tuple
    main_at,        \* viz.py: "check" | "process" | "exit": the loop main is in, with its turn
    search          \* maxGamutChroma: [L, H, lo, hi, turns, value] of the call in progress, value the returned one in a tuple

extraction == <<image, returned, pc, verbose, img, total, i, color_counts, stdout, seen>>

conversion == <<sample, result, stage>>

\* What the toolbar's inputs leave alone on the multiview page.
interaction == <<shown, selected, focusIdx, hoverGuard, guardFrames, zoomTimer>>

multiview ==
    <<pts, slider, filterL, filterC, filterH, voxelBins, densityThreshold, showMode,
      pendingRender, renderFrames, filtered, voxels, interaction>>

tonemap ==
    <<colorData, lSlider, cSlider, lDivs, cDivs, bins, normCount, maxGamutCCache,
      cellGeom, statsText, running, loop>>

sliceview ==
    <<sliceWidth, minChroma, currentHue, isDragging, inThrottle, throttleTimers, plotted>>

pages == <<multiview, tonemap, sliceview>>

cli == <<args, fs, valid_images, output_files, stderr, written, status, main_at>>

tools == <<cli, search>>

\* What the multiview page leaves alone, and what the tone map page does.
notView == <<extraction, conversion, tonemap, sliceview, tools>>

notTone == <<extraction, conversion, multiview, sliceview, tools>>

vars == <<extraction, conversion, pages, tools>>

-----------------------------------------------------------------------------
(* Bounds of the model *)

\* Small images have at most MaxPixels pixels, each given explicitly.
MaxPixels == 4

\* The colours small images are painted with.
Palette == {<<255, 0, 0>>, <<0, 0, 255>>, <<0, 10, 255>>}

\* The sizes of the images checked pixel by pixel although they are over budget.
LargeSizes == {<<1000, 1000>>}

\* A colour of HexSamples has two channels among these and the third anywhere in 0..255.
CornerChannels == {0, 10, 255}

\* The tile a large image repeats.
LargeTile == <<(<<255, 0, 0>>), (<<0, 0, 255>>), (<<255, 0, 0>>), (<<0, 10, 255>>), (<<255, 0, 0>>)>>

\* Side lengths of the images whose resampled size is computed (SpecResize).
ResizeSides ==
    {1, 2, 3, 9, 25, 500, 707, 708, 1000, 1001, 2000, 4000, 250000, 500001,
     1000000, 2000000, 2000001, 10000000}

\* Image.open rejects files above this pixel count (Pillow's decompression-bomb
\* limit), so no larger total reaches the size computation.
LargestImage == 178956970

\* The caller's slot for a call it has not made yet.
NotCalled == [called |-> FALSE, colors |-> <<>>]

-----------------------------------------------------------------------------
(* extract_colors.py *)

TARGET_PIXELS == 500000

PROGRESS_INTERVAL == 50000

Max(a, b) == IF a >= b THEN a ELSE b

HexChars == <<"0", "1", "2", "3", "4", "5", "6", "7", "8", "9", "A", "B", "C", "D", "E", "F">>

LowerHexChars == <<"0", "1", "2", "3", "4", "5", "6", "7", "8", "9", "a", "b", "c", "d", "e", "f">>

\* format(n, "X"): the uppercase hexadecimal digits of n, no padding.
RECURSIVE FormatX(_)
FormatX(n) ==
    IF n < 16 THEN <<HexChars[n + 1]>>
    ELSE FormatX(n \div 16) \o <<HexChars[(n % 16) + 1]>>

\* Mutant: format(n, "X"), the padding forgotten.
Format02XUnpadded(n) == FormatX(n)

\* format(n, "02X"): zero-padded to a minimum width of two.
Format02X(n) == IF n < 16 THEN <<"0">> \o FormatX(n) ELSE FormatX(n)

\* f"#{r:02X}{g:02X}{b:02X}"
rgb_to_hex(r, g, b) == <<"#">> \o Format02X(r) \o Format02X(g) \o Format02X(b)

\* str.lstrip("#")
RECURSIVE LStripHash(_)
LStripHash(s) ==
    IF Len(s) > 0 /\ Head(s) = "#" THEN LStripHash(Tail(s)) ELSE s

\* The value of one hexadecimal digit, either case, as int(_, 16) reads it.
HexDigitValue(ch) ==
    CHOOSE d \in 0..15 : HexChars[d + 1] = ch \/ LowerHexChars[d + 1] = ch

\* int(s, 16)
RECURSIVE IntBase16(_)
IntBase16(s) ==
    IF Len(s) = 1 THEN HexDigitValue(s[1])
    ELSE 16 * IntBase16(SubSeq(s, 1, Len(s) - 1)) + HexDigitValue(s[Len(s)])

\* tuple(int(h[i:i+2], 16) for i in (0, 2, 4))
hex_to_rgb(hex_color) ==
    LET h == LStripHash(hex_color)
    IN  <<IntBase16(SubSeq(h, 1, 2)), IntBase16(SubSeq(h, 3, 4)), IntBase16(SubSeq(h, 5, 6))>>


\* The order of a/b and c/d (-1, 0 or 1) for a, c >= 0 and b, d > 0, by continued
\* fractions, so that no product is formed.
RECURSIVE FracCmp(_, _, _, _)
FracCmp(a, b, c, d) ==
    LET qa == a \div b
        qc == c \div d
        ra == a % b
        rc == c % d
    IN  IF qa # qc THEN (IF qa < qc THEN -1 ELSE 1)
        ELSE IF ra = 0 /\ rc = 0 THEN 0
        ELSE IF ra = 0 THEN -1
        ELSE IF rc = 0 THEN 1
        ELSE FracCmp(d, rc, b, ra)

\* side * scale against n + 1/2, where scale = (TARGET_PIXELS / original_total) ** 0.5
\* and original_total = side * other:  (side * scale)^2 = side * TARGET_PIXELS / other,
\* so the order is that of (2n+1) * other / side and 4 * TARGET_PIXELS / (2n+1).
HalfCmp(n, side, other) ==
    -FracCmp((2 * n + 1) * other, side, 4 * TARGET_PIXELS, 2 * n + 1)

\* The least n in lo..hi that side * scale does not exceed by more than 1/2.
RECURSIVE RoundSearch(_, _, _, _)
RoundSearch(lo, hi, side, other) ==
    IF lo = hi THEN lo
    ELSE LET mid == (lo + hi) \div 2
         IN  IF HalfCmp(mid, side, other) = 1
             THEN RoundSearch(mid + 1, hi, side, other)
             ELSE RoundSearch(lo, mid, side, other)

\* round(side * scale): the nearest integer, a tie going to the even one.
RoundScaled(side, original_total) ==
    LET other == original_total \div side
        n     == RoundSearch(0, side, side, other)
    IN  IF HalfCmp(n, side, other) = 0 /\ n % 2 = 1 THEN n + 1 ELSE n

\* Mutant: round(original_w * scale), the floor of 1 forgotten.
NewSideUnfloored(side, original_total) == RoundScaled(side, original_total)

\* new_w = max(1, round(original_w * scale))
NewSide(side, original_total) == Max(1, RoundScaled(side, original_total))

\* list(img.getdata())[k]: row-major; a resized image takes, nearest neighbour,
\* the source pixel under the centre of each of its pixels.
PixelAt(k) ==
    LET n == Len(image.data)
    IN  IF img.resized
        THEN LET x  == k % img.w
                 y  == k \div img.w
                 sx == ((2 * x + 1) * image.w) \div (2 * img.w)
                 sy == ((2 * y + 1) * image.h) \div (2 * img.h)
             IN  image.data[((sy * image.w + sx) % n) + 1]
        ELSE image.data[(k % n) + 1]

\* Mutant: color_counts[hex_color] = 1, the assignment in place of the increment.
IncrementAssigns(counts, hex_color) ==
    IF \E j \in 1..Len(counts) : counts[j].hex = hex_color
    THEN counts
    ELSE Append(counts, [hex |-> hex_color, count |-> 1])

\* Mutant: the key is not looked up, every pixel gets an entry of its own.
IncrementAppends(counts, hex_color) ==
    Append(counts, [hex |-> hex_color, count |-> 1])

\* color_counts[hex_color] += 1: a new key goes to the end of the table.
Increment(counts, hex_color) ==
    IF \E j \in 1..Len(counts) : counts[j].hex = hex_color
    THEN LET j == CHOOSE j \in 1..Len(counts) : counts[j].hex = hex_color
         IN  [counts EXCEPT ![j].count = @ + 1]
    ELSE Append(counts, [hex |-> hex_color, count |-> 1])

\* Mutant: an unstable sort, e goes in front of the entries of equal count.
RECURSIVE InsertByCountUnstable(_, _)
InsertByCountUnstable(sorted, e) ==
    IF sorted = <<>> THEN <<e>>
    ELSE IF Head(sorted).count > e.count
         THEN <<Head(sorted)>> \o InsertByCountUnstable(Tail(sorted), e)
         ELSE <<e>> \o sorted

\* One step of the stable descending sort: e goes behind every entry whose count
\* is at least its own.
RECURSIVE InsertByCount(_, _)
InsertByCount(sorted, e) ==
    IF sorted = <<>> THEN <<e>>
    ELSE IF Head(sorted).count >= e.count
         THEN <<Head(sorted)>> \o InsertByCount(Tail(sorted), e)
         ELSE <<e>> \o sorted

\* Counter.most_common(): sorted(items, key=count, reverse=True), a stable sort.
RECURSIVE most_common(_)
most_common(counts) ==
    IF counts = <<>> THEN <<>>
    ELSE InsertByCount(most_common(SubSeq(counts, 1, Len(counts) - 1)), counts[Len(counts)])

\* The dict appended for one table entry.
ColorDict(entry) ==
    LET rgb == hex_to_rgb(entry.hex)
    IN  [Hex |-> entry.hex, R |-> rgb[1], G |-> rgb[2], B |-> rgb[3], Count |-> entry.count]

\* The list get_colors_from_image returns.
ColorList(counts) ==
    LET mc == most_common(counts)
    IN  [j \in 1..Len(mc) |-> ColorDict(mc[j])]

\* print(...) when verbose
Emit(out, enabled, line) == IF enabled THEN Append(out, line) ELSE out

-----------------------------------------------------------------------------
(* get_colors_from_image, from the call to the start of the loop *)
Call(v) ==
    /\ pc = "idle"
    /\ returned[v] = NotCalled
    /\ LET original_w     == image.w
           original_h     == image.h
           original_total == original_w * original_h
           resize         == original_total > TARGET_PIXELS
           new_w          == NewSide(original_w, original_total)
           new_h          == NewSide(original_h, original_total)
           size           == IF resize THEN <<new_w, new_h>> ELSE <<original_w, original_h>>
           out1           == Emit(stdout, v, <<"size", original_w, original_h, original_total>>)
           out2           == Emit(out1, v, IF resize THEN <<"resized", new_w, new_h>>
                                                     ELSE <<"no resize">>)
       IN  /\ img' = [w |-> size[1], h |-> size[2], resized |-> resize]
           /\ total' = size[1] * size[2]
           /\ stdout' = Emit(out2, v, <<"extracting">>)
    /\ verbose' = v
    /\ color_counts' = <<>>
    /\ i' = 0
    /\ seen' = {}
    /\ pc' = "loop"
    /\ UNCHANGED <<image, returned, conversion, pages, tools>>

(* Mutant: the count is taken inside the progress branch, so only when verbose. *)
LoopStepCountsUnderVerbose ==
    /\ pc = "loop"
    /\ i < total
    /\ LET rgb       == PixelAt(i)
           hex_color == rgb_to_hex(rgb[1], rgb[2], rgb[3])
       IN  /\ color_counts' = IF verbose THEN Increment(color_counts, hex_color)
                                         ELSE color_counts
           /\ seen' = seen \cup {rgb}
    /\ stdout' = Emit(stdout,
                      verbose /\ ((i + 1) % PROGRESS_INTERVAL = 0 \/ i + 1 = total),
                      <<"progress", i + 1, total>>)
    /\ i' = i + 1
    /\ UNCHANGED <<image, returned, pc, verbose, img, total, conversion, pages, tools>>

(* one iteration of the pixel loop *)
LoopStep ==
    /\ pc = "loop"
    /\ i < total
    /\ LET rgb       == PixelAt(i)
           hex_color == rgb_to_hex(rgb[1], rgb[2], rgb[3])
       IN  /\ color_counts' = Increment(color_counts, hex_color)
           /\ seen' = seen \cup {rgb}
    /\ stdout' = Emit(stdout,
                      verbose /\ ((i + 1) % PROGRESS_INTERVAL = 0 \/ i + 1 = total),
                      <<"progress", i + 1, total>>)
    /\ i' = i + 1
    /\ UNCHANGED <<image, returned, pc, verbose, img, total, conversion, pages, tools>>

(* the loop is exhausted: build the list and return it *)
Return ==
    /\ pc = "loop"
    /\ i = total
    /\ stdout' = Emit(stdout, verbose, <<"newline">>)
    /\ returned' = [returned EXCEPT ![verbose] = [called |-> TRUE, colors |-> ColorList(color_counts)]]
    /\ pc' = "idle"
    /\ UNCHANGED <<image, verbose, img, total, i, color_counts, seen, conversion, pages, tools>>

-----------------------------------------------------------------------------
\* Every image of at most MaxPixels pixels over the palette.
SmallImages ==
    UNION {[w : {w}, h : {h}, data : [1..(w * h) -> Palette]] :
              <<w, h>> \in {s \in (1..MaxPixels) \X (1..MaxPixels) : s[1] * s[2] <= MaxPixels}}

LargeImages == {[w |-> s[1], h |-> s[2], data |-> LargeTile] : s \in LargeSizes}

\* The images over the pixel budget that Image.open accepts.
ResizeImages ==
    {[w |-> s[1], h |-> s[2], data |-> LargeTile] :
        s \in {s \in ResizeSides \X ResizeSides :
                  /\ s[2] > TARGET_PIXELS \div s[1]
                  /\ s[2] <= LargestImage \div s[1]}}

InitCommon ==
    /\ returned = [v \in BOOLEAN |-> NotCalled]
    /\ pc = "idle"
    /\ verbose = FALSE
    /\ img = [w |-> 0, h |-> 0, resized |-> FALSE]
    /\ total = 0
    /\ i = 0
    /\ color_counts = <<>>
    /\ stdout = <<>>
    /\ seen = {}

\* No conversion is under way.
NoConversion ==
    /\ sample = <<>>
    /\ result = <<>>
    /\ stage = "none"

\* No extraction is under way.
NoExtraction ==
    /\ image = [w |-> 1, h |-> 1, data |-> <<(<<0, 0, 0>>)>>]
    /\ InitCommon

\* The multiview page is not open.
NoMultiview ==
    /\ pts = <<>>
    /\ slider = <<>>
    /\ filterL = <<>>
    /\ filterC = <<>>
    /\ filterH = <<>>
    /\ voxelBins = 0
    /\ densityThreshold = 0
    /\ showMode = "none"
    /\ pendingRender = FALSE
    /\ renderFrames = 0
    /\ filtered = <<>>
    /\ voxels = <<>>
    /\ shown = "none"
    /\ selected = {}
    /\ focusIdx = -1
    /\ hoverGuard = FALSE
    /\ guardFrames = 0
    /\ zoomTimer = FALSE

\* The tone map page is not open.
NoToneMap ==
    /\ colorData = <<>>
    /\ lSlider = 0
    /\ cSlider = 0
    /\ lDivs = 0
    /\ cDivs = 0
    /\ bins = <<>>
    /\ normCount = [num |-> 1, den |-> 1]
    /\ maxGamutCCache = <<>>
    /\ cellGeom = <<>>
    /\ statsText = [bins |-> 0, pixels |-> 0]
    /\ running = "none"
    /\ loop = [turns |-> 0, bins |-> 0, pixels |-> 0]

\* No page is open.
\* The slice viewer is not open.
NoSlice ==
    /\ sliceWidth = 0
    /\ minChroma = 0
    /\ currentHue = 0
    /\ isDragging = FALSE
    /\ inThrottle = FALSE
    /\ throttleTimers = 0
    /\ plotted = <<>>

NoPages == NoMultiview /\ NoToneMap /\ NoSlice

\* viz.py is not run.
NoCli ==
    /\ args = [images |-> <<>>, output |-> "None"]
    /\ fs = {}
    /\ valid_images = <<>>
    /\ output_files = <<>>
    /\ stderr = <<>>
    /\ written = <<>>
    /\ status = <<>>
    /\ main_at = [loop |-> "exit", turn |-> 0]

\* No call of maxGamutChroma is followed turn by turn.
NoSearch == search = [L |-> 0, H |-> 0, lo |-> 0, hi |-> 0, turns |-> 0, value |-> <<>>]

NoTools == NoCli /\ NoSearch

Init ==
    /\ image \in SmallImages \cup LargeImages
    /\ InitCommon
    /\ NoConversion
    /\ NoPages
    /\ NoTools

Next ==
    \/ \E v \in BOOLEAN : Call(v)
    \/ LoopStep
    \/ Return

Spec == Init /\ [][Next]_vars

InitResize ==
    /\ image \in ResizeImages
    /\ InitCommon
    /\ NoConversion
    /\ NoPages
    /\ NoTools

NextResize == \E v \in BOOLEAN : Call(v)

SpecResize == InitResize /\ [][NextResize]_vars

-----------------------------------------------------------------------------
(* Real numbers.  A float of the program is an integer count of 10^-8 (Unit);
   an angle in degrees is an integer count of 10^-6 degree, so that 360 fits.
   Every product and quotient is rounded to the nearest count, as a float
   operation rounds to the nearest float, and is formed without an intermediate
   above 2^31.  A Tiny is a float too small for that grid, of which the sign is
   all that is kept (see oklab_to_oklch). *)

Unit == 100000000

Half == 10000

Sgn(x) == IF x > 0 THEN 1 ELSE IF x < 0 THEN -1 ELSE 0

Abs(x) == IF x < 0 THEN -x ELSE x

Min(a, b) == IF a <= b THEN a ELSE b

\* a * b / Unit for a, b >= 0, rounded, from the halves of a and b.
MulAbs(a, b) ==
    LET a1 == a \div Half
        a0 == a % Half
        b1 == b \div Half
        b0 == b % Half
        u  == a1 * b0
        v  == a0 * b1
        w  == (a0 * b0) \div Half + Half \div 2
    IN  a1 * b1 + u \div Half + v \div Half + ((u % Half) + (v % Half) + w) \div Half

\* The float product a * b.
Mul(a, b) == Sgn(a) * Sgn(b) * MulAbs(Abs(a), Abs(b))

\* n more decimal digits of the quotient, r the remainder so far; the last is rounded.
RECURSIVE DivDigits(_, _, _, _)
DivDigits(acc, r, b, n) ==
    IF n = 0 THEN (IF 2 * r >= b THEN acc + 1 ELSE acc)
    ELSE DivDigits(acc * 10 + (r * 10) \div b, (r * 10) % b, b, n - 1)

\* a / b in Units for a >= 0, b > 0 (10 * b below 2^31), by long division.
DivAbs(a, b) == DivDigits(a \div b, a % b, b, 8)

\* a / n for an integer n > 0, rounded.
RoundDiv(a, n) == Sgn(a) * ((Abs(a) + n \div 2) \div n)

\* The largest divisor long division takes.
DivLimit == 214748364

\* The float quotient a / b; a divisor above DivLimit is taken without its last digit.
Div(a, b) ==
    IF Abs(b) > DivLimit
    THEN RoundDiv(Sgn(a) * Sgn(b) * DivAbs(Abs(a), Abs(b) \div 10), 10)
    ELSE Sgn(a) * Sgn(b) * DivAbs(Abs(a), Abs(b))

\* y ** n for 0 <= y <= 1.
RECURSIVE PowN(_, _)
PowN(y, n) == IF n = 0 THEN Unit ELSE Mul(PowN(y, n - 1), y)

\* p * y ** k <= v for y > 1, stopping at the first power above v.
RECURSIVE PowLeqFrom(_, _, _, _)
PowLeqFrom(p, y, k, v) ==
    IF p > v THEN FALSE
    ELSE IF k = 0 THEN TRUE
    ELSE PowLeqFrom(Mul(p, y), y, k - 1, v)

PowLeq(y, n, v) ==
    IF y <= Unit THEN PowN(y, n) <= v ELSE PowLeqFrom(Unit, y, n, v)

\* The largest y in lo..hi with y ** n <= v.
RECURSIVE RootSearch(_, _, _, _)
RootSearch(v, n, lo, hi) ==
    IF lo >= hi THEN lo
    ELSE LET mid == lo + (hi - lo + 1) \div 2
         IN  IF PowLeq(mid, n, v) THEN RootSearch(v, n, mid, hi)
                                  ELSE RootSearch(v, n, lo, mid - 1)

\* v ** (1/n) for v >= 0.
Root(v, n) ==
    RootSearch(v, n, 0, IF v <= Unit THEN Unit ELSE Unit + (v - Unit) \div n + 1)

\* math.sqrt
Sqrt(v) == Root(v, 2)

\* np.cbrt: the real cube root, of the sign of its argument.
Cbrt(v) == Sgn(v) * Root(Abs(v), 3)

\* x ** 2.4 = x^2 * (x^2) ** (1/5)
Pow24(x) ==
    LET x2 == Mul(x, x)
    IN  Mul(x2, Root(x2, 5))

\* x ** (1 / 2.4) = x ** (1/3) * (x ** (1/3)) ** (1/4)
PowInv24(x) ==
    LET c == Root(x, 3)
    IN  Mul(c, Sqrt(Sqrt(c)))

PI == 314159265

HALF_PI == 157079633

QUARTER_PI == 78539816

\* tan(pi / 8)
TAN_PI_8 == 41421356

\* The number of terms of a power series that are summed.
AtanTerms == 12

SinTerms == 8

\* sum over j >= k of (-1)^j * t2^(j-k) / (2j + 1)
RECURSIVE AtanTail(_, _)
AtanTail(t2, k) ==
    IF k > AtanTerms THEN 0
    ELSE (IF k % 2 = 0 THEN 1 ELSE -1) * RoundDiv(Unit, 2 * k + 1) + Mul(t2, AtanTail(t2, k + 1))

\* atan t for |t| <= tan(pi/8), by its power series.
AtanSmall(t) == Mul(t, AtanTail(Mul(t, t), 0))

\* atan t for 0 <= t <= 1: above tan(pi/8), pi/4 + atan((t - 1) / (t + 1)).
Atan01(t) ==
    IF t > TAN_PI_8 THEN QUARTER_PI + AtanSmall(Div(t - Unit, t + Unit))
    ELSE AtanSmall(t)

\* math.atan2(y, x) in radians, both arguments on the grid.
Atan2(y, x) ==
    IF x = 0 /\ y = 0 THEN 0
    ELSE LET ax   == Abs(x)
             ay   == Abs(y)
             oct  == IF ay <= ax THEN Atan01(Div(ay, ax))
                                 ELSE HALF_PI - Atan01(Div(ax, ay))
             half == IF x < 0 THEN PI - oct ELSE oct
         IN  IF y >= 0 THEN half ELSE -half

\* 1 - x2/(2k(2k+1)) * (1 - x2/((2k+2)(2k+3)) * ...)
RECURSIVE SinTail(_, _)
SinTail(x2, k) ==
    IF k > SinTerms THEN Unit
    ELSE Unit - RoundDiv(Mul(x2, SinTail(x2, k + 1)), (2 * k) * (2 * k + 1))

\* 1 - x2/((2k-1)2k) * (1 - x2/((2k+1)(2k+2)) * ...)
RECURSIVE CosTail(_, _)
CosTail(x2, k) ==
    IF k > SinTerms THEN Unit
    ELSE Unit - RoundDiv(Mul(x2, CosTail(x2, k + 1)), (2 * k - 1) * (2 * k))

\* <<math.sin(x), math.cos(x)>> for 0 <= x <= 2 pi, from the series on [0, pi/2].
SinCos(x) ==
    LET q  == (x \div HALF_PI) % 4
        r  == x % HALF_PI
        x2 == Mul(r, r)
        sn == Mul(r, SinTail(x2, 1))
        cs == CosTail(x2, 1)
    IN  CASE q = 0 -> <<sn, cs>>
          [] q = 1 -> <<cs, -sn>>
          [] q = 2 -> <<-sn, -cs>>
          [] q = 3 -> <<-cs, sn>>

\* 180 / pi, taking radians in Units to degrees in 10^-6 degree.
DEG_PER_RAD == 57295780

\* pi / 180, taking degrees in 10^-6 degree to radians in Units.
RAD_PER_DEG == 174532925

\* math.degrees
Degrees(h) == Mul(h, DEG_PER_RAD)

\* math.radians
Radians(d) == Mul(d, RAD_PER_DEG)

\* 360 degrees.
TURN == 360000000

\* A float as oklab_to_oklch takes it: q counts of 10^-8, or, with q = 0, a float of
\* sign t whose magnitude is below 10^-19 (such as 1e-20).
Fl(q) == [q |-> q, t |-> 0]

Tiny(t) == [q |-> 0, t |-> t]

FlSgn(x) == IF x.q # 0 THEN Sgn(x.q) ELSE Sgn(x.t)

\* math.atan2 on such floats.  A tiny argument beside one on the grid changes no
\* digit of the angle; with a tiny y and x > 0 the angle is itself tiny, of the sign
\* of y.
FlAtan2(y, x) ==
    IF y.q = 0 /\ x.q = 0 THEN Fl(Atan2(y.t, x.t))
    ELSE IF y.q = 0 /\ x.q > 0 THEN Tiny(y.t)
    ELSE IF y.q = 0 THEN Fl(IF y.t < 0 THEN -PI ELSE PI)
    ELSE Fl(Atan2(y.q, x.q))

\* math.degrees on such floats.
FlDegrees(h) == [q |-> Degrees(h.q), t |-> h.t]

-----------------------------------------------------------------------------
(* color_utils.py *)

\* Mutant: the decoding exponent 2.2 of a plain gamma curve.
srgb_to_linear_gamma22(c) ==
    IF c <= 4045000 THEN Div(c, 1292000000)
    ELSE LET x  == Div(c + 5500000, 105500000)
         IN  Mul(Mul(x, x), Root(x, 5))

srgb_to_linear(c) ==
    IF c <= 4045000 THEN Div(c, 1292000000)
    ELSE Pow24(Div(c + 5500000, 105500000))

linear_srgb_to_oklab(r, g, b) ==
    LET l  == Mul(41222147, r) + Mul(53633254, g) + Mul(5144599, b)
        m  == Mul(21190350, r) + Mul(68069955, g) + Mul(10739696, b)
        s  == Mul(8830246, r) + Mul(28171884, g) + Mul(62997870, b)
        l_ == Cbrt(l)
        m_ == Cbrt(m)
        s_ == Cbrt(s)
    IN  <<Mul(21045426, l_) + Mul(79361778, m_) - Mul(407205, s_),
          Mul(197799850, l_) - Mul(242859221, m_) + Mul(45059371, s_),
          Mul(2590404, l_) + Mul(78277177, m_) - Mul(80867577, s_)>>

\* math.sqrt(a * a + b * b), the squares taken of the ratio of the smaller to the
\* larger so that they keep their digits on the grid.
Hypot(a, b) ==
    LET hi == Max(Abs(a), Abs(b))
        lo == Min(Abs(a), Abs(b))
        t  == Div(lo, hi)
    IN  IF hi = 0 THEN 0 ELSE Mul(hi, Sqrt(Unit + Mul(t, t)))

\* <<L, C, H_deg>>.  H_deg += 360 rounds to the nearest float: a tiny negative H_deg
\* changes no digit of 360.
oklab_to_oklch(L, a, b) ==
    LET C     == Hypot(a.q, b.q)
        H     == FlAtan2(b, a)
        H_deg == FlDegrees(H)
    IN  <<L, C, IF FlSgn(H_deg) < 0 THEN H_deg.q + TURN ELSE H_deg.q>>

oklch_to_oklab(L, C, H) ==
    LET sc == SinCos(Radians(H))
    IN  <<L, Mul(C, sc[2]), Mul(C, sc[1])>>

linear_to_srgb(c) ==
    IF c <= 313080 THEN Mul(1292000000, c)
    ELSE Mul(105500000, PowInv24(c)) - 5500000

oklab_to_linear_srgb(L, a, b) ==
    LET l_ == L + Mul(39633778, a) + Mul(21580376, b)
        m_ == L - Mul(10556135, a) - Mul(6385417, b)
        s_ == L - Mul(8948418, a) - Mul(129148555, b)
        l  == Mul(Mul(l_, l_), l_)
        m  == Mul(Mul(m_, m_), m_)
        s  == Mul(Mul(s_, s_), s_)
    IN  <<Mul(407674166, l) - Mul(330771159, m) + Mul(23096993, s),
          Mul(260975740, m) - Mul(126843800, l) - Mul(34131940, s),
          Mul(170761470, s) - Mul(419609, l) - Mul(70341861, m)>>

\* round(x * 255) for 0 <= x <= 1: the nearest integer, a tie going to the even one.
Round255(x) ==
    LET t    == 255 * (x \div Half) + (255 * (x % Half)) \div Half
        rem  == (255 * (x % Half)) % Half
        n    == t \div Half
        frac == (t % Half) * Half + rem
    IN  IF frac > Unit \div 2 \/ (frac = Unit \div 2 /\ n % 2 = 1) THEN n + 1 ELSE n

\* Mutant: the encoded value is not clamped.
ChannelUnclamped(c) == Round255(linear_to_srgb(c))

\* round(max(0, min(1, linear_to_srgb(c))) * 255)
Channel(c) == Round255(Max(0, Min(Unit, linear_to_srgb(c))))

oklch_to_rgb(L, C, H) ==
    LET lab == oklch_to_oklab(L, C, H)
        lin == oklab_to_linear_srgb(lab[1], lab[2], lab[3])
    IN  <<Channel(lin[1]), Channel(lin[2]), Channel(lin[3])>>

rgb_to_oklch(r, g, b) ==
    LET r_lin == srgb_to_linear(DivAbs(r, 255))
        g_lin == srgb_to_linear(DivAbs(g, 255))
        b_lin == srgb_to_linear(DivAbs(b, 255))
        lab   == linear_srgb_to_oklab(r_lin, g_lin, b_lin)
    IN  oklab_to_oklch(lab[1], Fl(lab[2]), Fl(lab[3]))

-----------------------------------------------------------------------------
(* Properties of the extraction *)

RECURSIVE SumOf(_, _)
SumOf(seq, field) ==
    IF seq = <<>> THEN 0 ELSE seq[1][field] + SumOf(Tail(seq), field)

Returned == {v \in BOOLEAN : returned[v].called}

\* The index of the first pixel of the iterated image with the given value
\* (total if there is none).
RECURSIVE FirstIndex(_, _)
FirstIndex(rgb, k) ==
    IF k >= total THEN total
    ELSE IF PixelAt(k) = rgb THEN k
    ELSE FirstIndex(rgb, k + 1)

FirstSeen(rec) == FirstIndex(<<rec.R, rec.G, rec.B>>, 0)

\* C1: after the loop has iterated k pixels the counts in the frequency table sum
\* to k, and the Count values of a returned list sum to the number of pixels of the
\* image that was iterated: new_w * new_h when it was resampled, width * height
\* otherwise.
C1_CountConservation ==
    /\ pc = "loop" => SumOf(color_counts, "count") = i
    /\ \A v \in Returned :
          SumOf(returned[v].colors, "Count") =
              IF image.w * image.h > TARGET_PIXELS THEN img.w * img.h
                                                   ELSE image.w * image.h

\* C1 witness: the loop iterates an image that was resampled to another size and
\* has counted several pixels of two colours, one of them more than once.
C1_Witness ==
    /\ pc = "loop"
    /\ img.resized
    /\ img.w * img.h # image.w * image.h
    /\ i >= 3
    /\ Len(color_counts) = 2

\* The images of the specification's example: 2x2, three (255,0,0) and one (0,0,255).
IsExampleImage ==
    /\ image.w = 2
    /\ image.h = 2
    /\ Cardinality({k \in 1..4 : image.data[k] = <<255, 0, 0>>}) = 3
    /\ Cardinality({k \in 1..4 : image.data[k] = <<0, 0, 255>>}) = 1

ExampleList ==
    <<[Hex |-> <<"#", "F", "F", "0", "0", "0", "0">>, R |-> 255, G |-> 0, B |-> 0, Count |-> 3],
      [Hex |-> <<"#", "0", "0", "0", "0", "F", "F">>, R |-> 0, G |-> 0, B |-> 255, Count |-> 1]>>

\* C2: a returned list is ordered by Count non-increasing, two records of equal
\* Count stand in the order in which their colours were first met in the row-major
\* scan, and the 2x2 example yields #FF0000 with 3, then #0000FF with 1.
C2_OrderedByCountThenFirstSeen ==
    \A v \in Returned :
        LET colors == returned[v].colors
        IN  /\ \A j, k \in 1..Len(colors) :
                  j < k =>
                      /\ colors[j].Count >= colors[k].Count
                      /\ colors[j].Count = colors[k].Count
                            => FirstSeen(colors[j]) < FirstSeen(colors[k])
            /\ IsExampleImage => colors = ExampleList

\* C2 witness: a returned list in which a tie follows a larger count, the tied
\* colours first met in the order they are listed.
C2_Witness ==
    /\ returned[FALSE].called
    /\ pc = "idle"
    /\ Len(returned[FALSE].colors) = 3
    /\ returned[FALSE].colors[1].Count > returned[FALSE].colors[2].Count
    /\ returned[FALSE].colors[2].Count = returned[FALSE].colors[3].Count
    /\ image.data[1] = <<returned[FALSE].colors[2].R, returned[FALSE].colors[2].G,
                         returned[FALSE].colors[2].B>>

\* C3: a returned list holds exactly one record per distinct colour of the iterated
\* pixels: no two records share a Hex, every colour met has a record (and every
\* record a colour that was met), and every Count is at least 1.  The table being
\* built has one entry per colour met so far.
C3_OneRecordPerColour ==
    /\ pc = "loop" =>
          /\ \A j, k \in 1..Len(color_counts) :
                color_counts[j].hex = color_counts[k].hex => j = k
          /\ {color_counts[j].hex : j \in 1..Len(color_counts)}
                = {rgb_to_hex(c[1], c[2], c[3]) : c \in seen}
    /\ pc = "idle" =>
          \A v \in Returned :
              LET colors == returned[v].colors
              IN  /\ \A j, k \in 1..Len(colors) : colors[j].Hex = colors[k].Hex => j = k
                  /\ {<<colors[j].R, colors[j].G, colors[j].B>> : j \in 1..Len(colors)} = seen
                  /\ {colors[j].Hex : j \in 1..Len(colors)}
                        = {rgb_to_hex(c[1], c[2], c[3]) : c \in seen}
                  /\ \A j \in 1..Len(colors) : colors[j].Count >= 1

\* C3 witness: a returned list of two records for an image in which one colour
\* occurs more than once.
C3_Witness ==
    /\ pc = "idle"
    /\ returned[TRUE].called
    /\ Len(returned[TRUE].colors) = 2
    /\ returned[TRUE].colors[1].Count >= 2
    /\ Cardinality(seen) = 2

\* C6: the list returned with verbose=True equals the list returned with
\* verbose=False on the same pixel data.
C6_VerboseDoesNotChangeResult ==
    (returned[TRUE].called /\ returned[FALSE].called)
        => returned[TRUE].colors = returned[FALSE].colors

\* C6 witness: both calls have returned a list of several colours, and the verbose
\* one has printed progress.
C6_Witness ==
    /\ returned[TRUE].called
    /\ returned[FALSE].called
    /\ Len(returned[TRUE].colors) >= 2
    /\ \E k \in 1..Len(stdout) : stdout[k][1] = "progress"

-----------------------------------------------------------------------------
(* Properties of the resampled size (SpecResize) *)

\* C4: the size an image over the budget is resampled to has at most 500,000
\* pixels, and 2000x2000 is resampled to 707x707.
C4_ResampledWithinBudget ==
    img.resized =>
        /\ img.w * img.h <= TARGET_PIXELS
        /\ (image.w = 2000 /\ image.h = 2000) => (img.w = 707 /\ img.h = 707)

\* C5: both sides of the resampled size are at least 1.
C5_ResampledNotEmpty ==
    img.resized => (img.w >= 1 /\ img.h >= 1)

\* C5 witness: an image of extreme aspect ratio whose height rounds to 0 has been
\* resampled.
C5_Witness ==
    /\ img.resized
    /\ image.h = 1
    /\ RoundScaled(image.h, image.w * image.h) = 0

-----------------------------------------------------------------------------
(* rgb_to_hex and hex_to_rgb on their own (SpecHex): one colour is formatted, then
   counted and turned into the record of the list. *)

HexSamples ==
    {c \in (0..255) \X (0..255) \X (0..255) :
        Cardinality({k \in 1..3 : c[k] \in CornerChannels}) >= 2}

InitHex ==
    /\ sample \in HexSamples
    /\ result = <<>>
    /\ stage = "none"
    /\ NoExtraction
    /\ NoPages
    /\ NoTools

\* hex_color = rgb_to_hex(r, g, b)
FormatHex ==
    /\ stage = "none"
    /\ result' = [hex |-> rgb_to_hex(sample[1], sample[2], sample[3])]
    /\ stage' = "hex"
    /\ UNCHANGED <<sample, extraction, pages, tools>>

\* the record built from the table entry of that key
BuildRecord ==
    /\ stage = "hex"
    /\ result' = [hex  |-> result.hex,
                  dict |-> ColorList(Increment(<<>>, result.hex))[1]]
    /\ stage' = "record"
    /\ UNCHANGED <<sample, extraction, pages, tools>>

NextHex == FormatHex \/ BuildRecord

SpecHex == InitHex /\ [][NextHex]_vars

UpperHexDigits ==
    {"0", "1", "2", "3", "4", "5", "6", "7", "8", "9", "A", "B", "C", "D", "E", "F"}

\* C7: rgb_to_hex(r, g, b) is "#" followed by exactly six uppercase hexadecimal
\* digits, hex_to_rgb takes it back to (r, g, b), and the record built under that
\* key has the R, G, B of the pixel that was counted.
C7_HexRoundTrip ==
    /\ stage \in {"hex", "record"} =>
          /\ Len(result.hex) = 7
          /\ result.hex[1] = "#"
          /\ \A k \in 2..7 : result.hex[k] \in UpperHexDigits
          /\ hex_to_rgb(result.hex) = sample
    /\ stage = "record" =>
          /\ result.dict.Hex = result.hex
          /\ <<result.dict.R, result.dict.G, result.dict.B>> = sample

\* C7 witness: the record of a colour whose channels need a padding zero, a letter
\* digit and two letter digits.
C7_Witness ==
    /\ stage = "record"
    /\ sample = <<10, 171, 255>>
    /\ result.dict.Hex = <<"#", "0", "A", "A", "B", "F", "F">>

-----------------------------------------------------------------------------
(* The colour conversions on their own (SpecColor): one colour of the list is
   converted to OKLCH and back, or made into the record a viewer embeds in its
   page. *)

\* The channel values of the colours that are converted.
ChannelSamples == {0, 1, 5, 21, 62, 67, 121, 125, 128, 255}

ColorSamples == ChannelSamples \X ChannelSamples \X ChannelSamples

\* round(x, d): x to the nearest multiple of step, in steps, a tie going to the even
\* one.
PyRound(x, step) ==
    LET n    == x \div step
        frac == x % step
    IN  IF 2 * frac > step \/ (2 * frac = step /\ n % 2 = 1) THEN n + 1 ELSE n

\* 10^-4 in Units, and 10^-2 degree in 10^-6 degree.
ROUND_STEP == 10000

\* {"L": round(L, 4), "C": round(C, 4), "H": round(H, 2), ...}
OklchRecord(viewer, c) ==
    CHOOSE rec \in {[viewer |-> viewer,
                     L |-> PyRound(lch[1], ROUND_STEP),
                     C |-> PyRound(lch[2], ROUND_STEP),
                     H |-> PyRound(lch[3], ROUND_STEP),
                     r |-> c[1], g |-> c[2], b |-> c[3]] :
                        lch \in {rgb_to_oklch(c[1], c[2], c[3])}} : TRUE

InitColor ==
    /\ sample \in ColorSamples
    /\ result = <<>>
    /\ stage = "none"
    /\ NoExtraction
    /\ NoPages
    /\ NoTools

\* L, C, H = rgb_to_oklch(r, g, b)
ToOklch ==
    /\ stage = "none"
    /\ result' = [oklch |-> rgb_to_oklch(sample[1], sample[2], sample[3])]
    /\ stage' = "oklch"
    /\ UNCHANGED <<sample, extraction, pages, tools>>

\* oklch_to_rgb(L, C, H)
ToRgb ==
    /\ stage = "oklch"
    /\ result' = [oklch |-> result.oklch,
                  rgb   |-> oklch_to_rgb(result.oklch[1], result.oklch[2], result.oklch[3])]
    /\ stage' = "rgb"
    /\ UNCHANGED <<sample, extraction, pages, tools>>

\* One colour of the loop of a viewer.
Embed(viewer) ==
    /\ stage = "none"
    /\ result' = OklchRecord(viewer, sample)
    /\ stage' = "data"
    /\ UNCHANGED <<sample, extraction, pages, tools>>

create_multiview == Embed("multiview")

create_tone_map == Embed("tone_map")

\* create_slice_viewer converts the colour and generate_html rounds it.
generate_html == Embed("slice")

NextColor ==
    \/ ToOklch
    \/ ToRgb
    \/ create_multiview
    \/ create_tone_map
    \/ generate_html

SpecColor == InitColor /\ [][NextColor]_vars

\* C8: converting a colour (r, g, b) of [0,255]^3 to OKLCH and back gives every
\* channel within 1 of the channel that was converted.
C8_RoundTripWithinOne ==
    stage = "rgb" =>
        \A k \in 1..3 : Abs(result.rgb[k] - sample[k]) <= 1

\* C8 witness: a saturated colour has been taken to OKLCH, where it has chroma and a
\* hue, and back.
C8_Witness ==
    /\ stage = "rgb"
    /\ sample = <<125, 21, 67>>
    /\ result.oklch[2] > 10000000
    /\ result.rgb = sample

\* C10: every record the viewers embed has C >= 0 and 0 <= H < 360, after L and C
\* are rounded to 4 decimals and H to 2 (H is in hundredths of a degree).
C10_RecordInRange ==
    stage = "data" =>
        /\ result.C >= 0
        /\ result.H >= 0
        /\ result.H < 36000

-----------------------------------------------------------------------------
(* oklab_to_oklch on its own (SpecPolar): one (L, a, b) is converted. *)

\* The values of a and b: on the grid, and of either sign below it.
PolarSamples ==
    {Fl(q) : q \in {-30000000, -10000000, -100000, 0, 100000, 10000000, 30000000}}
        \cup {Tiny(-1), Tiny(1)}

LightnessSamples == {0, Unit \div 2, Unit}

InitPolar ==
    /\ sample \in LightnessSamples \X PolarSamples \X PolarSamples
    /\ result = <<>>
    /\ stage = "none"
    /\ NoExtraction
    /\ NoPages
    /\ NoTools

\* L, C, H = oklab_to_oklch(L, a, b)
ToPolar ==
    /\ stage = "none"
    /\ result' = [oklch |-> oklab_to_oklch(sample[1], sample[2], sample[3])]
    /\ stage' = "polar"
    /\ UNCHANGED <<sample, extraction, pages, tools>>

NextPolar == ToPolar

SpecPolar == InitPolar /\ [][NextPolar]_vars

\* C9: for every (L, a, b), oklab_to_oklch returns C >= 0 and 0 <= H < 360; 360 is
\* never returned.
C9_HueBelow360 ==
    stage = "polar" =>
        /\ result.oklch[2] >= 0
        /\ result.oklch[3] >= 0
        /\ result.oklch[3] < TURN

-----------------------------------------------------------------------------
(* The multiview page (HTML_TEMPLATE of visualize_multiview.py): the records that
   create_multiview embeds, the range inputs and buttons of the toolbar, and the
   render that an animation frame runs.  A record holds L and C in 10^-4 and H in
   10^-2 degree, as they were rounded; a voxel holds its means in Units and in
   10^-6 degree.  Indices into pts count from 1.  The fields of a point and of a
   voxel that only colour or place its marker (hex, r, g, b, cx, cy, stdL, stdC)
   are left out. *)

\* The colour lists the page is opened on, each colour <<R, G, B, Count>>.
ViewLists ==
    { <<>>,
      << <<121, 5, 62, 2>>, <<125, 21, 67, 1>>, <<255, 255, 255, 3>>, <<0, 0, 0, 1>> >>,
      << <<255, 0, 0, 4>>, <<250, 10, 10, 1>>, <<0, 0, 255, 2>>, <<0, 128, 128, 1>> >> }

\* The positions the range inputs are moved to.
SliderStops == {0, 1000}

\* min and max of voxelSlider.
VOXEL_MIN == 3

VOXEL_MAX == 40

VoxelStops == {VOXEL_MIN, VOXEL_MAX}

DensityStops == {500, 1000}

\* data.append({...}) and RAW.map: the point of one colour of the list.
PointOf(c) ==
    CHOOSE d \in {[L |-> rec.L, C |-> rec.C, H |-> rec.H, count |-> c[4],
                   r |-> c[1], g |-> c[2], b |-> c[3]] :
                      rec \in {OklchRecord("multiview", <<c[1], c[2], c[3]>>)}} : TRUE

\* The extent of the axes in the units of a record: 1.0, 0.4 and 360.
L_EXTENT == 10000

C_EXTENT == 4000

H_EXTENT == 36000

\* The range of a range input of a filter.
SLIDER_MAX == 1000

Extent == [L |-> L_EXTENT, C |-> C_EXTENT, H |-> H_EXTENT]

MinId == [L |-> "fL-min", C |-> "fC-min", H |-> "fH-min"]

MaxId == [L |-> "fL-max", C |-> "fC-max", H |-> "fH-max"]

\* The value attributes of the inputs, and the state the script declares.
InitView ==
    /\ pts \in {[k \in 1..Len(cs) |-> PointOf(cs[k])] : cs \in ViewLists}
    /\ slider = [id \in {"fL-min", "fL-max", "fC-min", "fC-max", "fH-min", "fH-max",
                         "voxelSlider", "densitySlider"} |->
                    CASE id \in {"fL-min", "fC-min", "fH-min"} -> 0
                      [] id \in {"fL-max", "fC-max", "fH-max"} -> SLIDER_MAX
                      [] id = "voxelSlider" -> 12
                      [] id = "densitySlider" -> 0]
    /\ filterL = <<0, L_EXTENT>>
    /\ filterC = <<0, C_EXTENT>>
    /\ filterH = <<0, H_EXTENT>>
    /\ voxelBins = 12
    /\ densityThreshold = 0
    /\ showMode = "both"
    /\ pendingRender = TRUE
    /\ renderFrames = 1
    /\ filtered = <<>>
    /\ voxels = <<>>
    /\ shown = "none"
    /\ selected = {}
    /\ focusIdx = -1
    /\ hoverGuard = FALSE
    /\ guardFrames = 0
    /\ zoomTimer = FALSE
    /\ NoExtraction
    /\ NoConversion
    /\ NoToneMap
    /\ NoSlice
    /\ NoTools

\* Mutant: a frame is requested whether or not one is.
RequestedAlways(pending, frames) == frames + 1

\* if (pendingRender) return; ...; requestAnimationFrame(...)
Requested(pending, frames) == IF pending THEN frames ELSE frames + 1

\* renderAll(): request a frame unless one is requested.
renderAll ==
    /\ pendingRender' = TRUE
    /\ renderFrames' = Requested(pendingRender, renderFrames)

\* Mutant: crossed values are passed on as they are read.
OrderedAsRead(lo, hi) == <<lo, hi>>

\* if (lo > hi) { [lo, hi] = [hi, lo]; ... }
Ordered(lo, hi) == IF lo > hi THEN <<hi, lo>> ELSE <<lo, hi>>

\* update() of setupDualRange after the input id of the axis was moved to x:
\* crossed values are swapped and written back, and onChange sets the filter.
DualInput(axis, id, x) ==
    LET moved == [slider EXCEPT ![id] = x]
        pair  == Ordered(moved[MinId[axis]], moved[MaxId[axis]])
        lo    == pair[1]
        hi    == pair[2]
        range == <<(lo * Extent[axis]) \div SLIDER_MAX, (hi * Extent[axis]) \div SLIDER_MAX>>
    IN  /\ showMode # "none"
        /\ x # slider[id]
        /\ slider' = [moved EXCEPT ![MinId[axis]] = lo, ![MaxId[axis]] = hi]
        /\ filterL' = IF axis = "L" THEN range ELSE filterL
        /\ filterC' = IF axis = "C" THEN range ELSE filterC
        /\ filterH' = IF axis = "H" THEN range ELSE filterH
        /\ renderAll
        /\ UNCHANGED <<pts, voxelBins, densityThreshold, showMode, filtered, voxels,
                       interaction, notView>>

\* The input listener of voxelSlider.
VoxelInput(x) ==
    /\ showMode # "none"
    /\ x # slider["voxelSlider"]
    /\ slider' = [slider EXCEPT !["voxelSlider"] = x]
    /\ voxelBins' = x
    /\ renderAll
    /\ UNCHANGED <<pts, filterL, filterC, filterH, densityThreshold, showMode, filtered,
                   voxels, interaction, notView>>

RECURSIVE MaxCount(_)
MaxCount(P) == IF P = <<>> THEN 0 ELSE Max(P[1].count, MaxCount(Tail(P)))

\* Math.round(Math.pow(v / 1000, 2) * maxCount), a half going up.
DensityOf(v, P) ==
    LET maxCount == IF Len(P) > 0 THEN MaxCount(P) ELSE 1
    IN  IF v = 0 THEN 0
        ELSE (2 * v * v * maxCount + SLIDER_MAX * SLIDER_MAX) \div (2 * SLIDER_MAX * SLIDER_MAX)

\* The input listener of densitySlider.
DensityInput(x) ==
    /\ showMode # "none"
    /\ x # slider["densitySlider"]
    /\ slider' = [slider EXCEPT !["densitySlider"] = x]
    /\ densityThreshold' = DensityOf(x, pts)
    /\ renderAll
    /\ UNCHANGED <<pts, filterL, filterC, filterH, voxelBins, showMode, filtered, voxels,
                   interaction, notView>>

setMode(mode) ==
    /\ showMode # "none"
    /\ showMode' = mode
    /\ renderAll
    /\ UNCHANGED <<pts, slider, filterL, filterC, filterH, voxelBins, densityThreshold,
                   filtered, voxels, interaction, notView>>

\* Mutant: the range of the filter as the sliders show it.
FullRangeKept(axis) ==
    <<(slider[MinId[axis]] * Extent[axis]) \div SLIDER_MAX,
      (slider[MaxId[axis]] * Extent[axis]) \div SLIDER_MAX>>

\* filterL = [0,1]; filterC = [0,0.4]; filterH = [0,360]
FullRange(axis) == <<0, Extent[axis]>>

resetAll ==
    /\ showMode # "none"
    /\ filterL' = FullRange("L")
    /\ filterC' = FullRange("C")
    /\ filterH' = FullRange("H")
    /\ slider' = [id \in DOMAIN slider |->
                     CASE id \in {"fL-min", "fC-min", "fH-min"} -> 0
                       [] id \in {"fL-max", "fC-max", "fH-max"} -> SLIDER_MAX
                       [] OTHER -> slider[id]]
    /\ selected' = {}
    /\ focusIdx' = -1
    /\ renderAll
    /\ zoomTimer' = TRUE
    /\ UNCHANGED <<pts, voxelBins, densityThreshold, showMode, filtered, voxels, shown,
                   hoverGuard, guardFrames, notView>>

\* The timeout of resetAll runs and resets the zoom of the 2D views, which is not
\* kept here.  Of several pending timeouts this is the last.
ZoomTimeout ==
    /\ zoomTimer
    /\ zoomTimer' = FALSE
    /\ UNCHANGED <<pts, slider, filterL, filterC, filterH, voxelBins, densityThreshold,
                   showMode, pendingRender, renderFrames, filtered, voxels, shown,
                   selected, focusIdx, hoverGuard, guardFrames, notView>>

hueInRange(h, lo, hi) ==
    IF lo <= hi THEN h >= lo /\ h <= hi ELSE h >= lo \/ h <= hi

\* The test of applyFilters on one point.
PassesFilters(d) ==
    /\ d.L >= filterL[1] /\ d.L <= filterL[2]
    /\ d.C >= filterC[1] /\ d.C <= filterC[2]
    /\ hueInRange(d.H, filterH[1], filterH[2])

\* Mutant: filtered is not emptied first.
applyFiltersAppending(old) ==
    old \o SelectSeq([k \in 1..Len(pts) |-> k], LAMBDA k : PassesFilters(pts[k]))

\* applyFilters(): filtered, which held old, becomes the indices that pass, in order.
applyFilters(old) ==
    SelectSeq([k \in 1..Len(pts) |-> k], LAMBDA k : PassesFilters(pts[k]))

\* <<extent, nB, v>> where v / (extent / nB) is a whole number in exact arithmetic
\* and binary64 gives the double just below it: all such triples for v a multiple
\* of 10^-4 in [0, 1] or [0, 0.4] or of 10^-2 in [0, 360], and nB in 3..40.  (For
\* the tone map's 0.35 / cDivs and 360 / 24 there is none.)
RoundedBelow ==
    {<<10000, 5, 6000>>, <<10000, 10, 3000>>, <<10000, 10, 6000>>, <<10000, 10, 7000>>,
     <<10000, 20, 1500>>, <<10000, 20, 3000>>, <<10000, 20, 3500>>,
     <<10000, 20, 6000>>, <<10000, 20, 7000>>, <<10000, 20, 9500>>, <<10000, 40, 750>>,
     <<10000, 40, 1500>>, <<10000, 40, 1750>>, <<10000, 40, 3000>>,
     <<10000, 40, 3500>>, <<10000, 40, 4750>>, <<10000, 40, 5750>>,
     <<10000, 40, 6000>>, <<10000, 40, 7000>>, <<10000, 40, 7250>>,
     <<10000, 40, 8250>>, <<10000, 40, 9500>>, <<4000, 4, 3000>>, <<4000, 8, 1500>>,
     <<4000, 8, 3000>>, <<4000, 8, 3500>>, <<4000, 11, 4000>>, <<4000, 15, 2400>>,
     <<4000, 16, 750>>, <<4000, 16, 1500>>, <<4000, 16, 1750>>, <<4000, 16, 3000>>,
     <<4000, 16, 3500>>, <<4000, 22, 2000>>, <<4000, 22, 4000>>, <<4000, 28, 3000>>,
     <<4000, 30, 1200>>, <<4000, 30, 2400>>, <<4000, 30, 3600>>, <<4000, 32, 375>>,
     <<4000, 32, 750>>, <<4000, 32, 875>>, <<4000, 32, 1500>>, <<4000, 32, 1750>>,
     <<4000, 32, 2375>>, <<4000, 32, 2875>>, <<4000, 32, 3000>>, <<4000, 32, 3500>>,
     <<4000, 32, 3625>>, <<4000, 36, 3000>>, <<4000, 40, 2900>>, <<36000, 25, 18720>>,
     <<36000, 25, 30240>>, <<36000, 35, 7200>>, <<36000, 35, 14400>>,
     <<36000, 35, 28800>>}

\* Math.floor(v / (extent / nB))
FloorOfQuotient(v, extent, nB) ==
    (v * nB) \div extent - (IF <<extent, nB, v>> \in RoundedBelow THEN 1 ELSE 0)

\* Math.min(Math.floor(v / (extent / nB)), nB - 1)
BinIndex(v, extent, nB) == Min(FloorOfQuotient(v, extent, nB), nB - 1)

\* Mutant: the key with factors 100 and 10.
KeyOfNarrow(kl, kc, kh) == kl * 100 + kc * 10 + kh

\* const key = kl * 10000 + kc * 100 + kh
KeyOf(kl, kc, kh) == kl * 10000 + kc * 100 + kh

VoxelKey(d, nB) ==
    KeyOf(BinIndex(d.L, L_EXTENT, nB), BinIndex(d.C, C_EXTENT, nB),
          BinIndex(d.H, H_EXTENT, nB))

\* Math.sin and Math.cos of d.H * Math.PI / 180.  At a multiple of 90 degrees the
\* function that is zero in exact arithmetic is a float below the grid, of the sign
\* binary64 gives it; sin(0) is 0.
HueSinCos(h) ==
    CASE h = 0              -> <<Fl(0), Fl(Unit)>>
      [] h = H_EXTENT \div 4 -> <<Fl(Unit), Tiny(1)>>
      [] h = H_EXTENT \div 2 -> <<Tiny(1), Fl(-Unit)>>
      [] h = 3 * (H_EXTENT \div 4) -> <<Fl(-Unit), Tiny(-1)>>
      [] h = H_EXTENT       -> <<Tiny(-1), Fl(Unit)>>
      [] OTHER              -> LET sc == SinCos(Radians(h * ROUND_STEP))
                               IN  <<Fl(sc[1]), Fl(sc[2])>>

\* x * n for a count n >= 1.
FlScale(x, n) == [q |-> x.q * n, t |-> x.t]

\* x + y: beside a float on the grid one below it changes no digit.
FlAdd(x, y) ==
    IF x.q = 0 /\ y.q = 0 THEN [q |-> 0, t |-> Sgn(x.t + y.t)]
    ELSE IF x.q + y.q = 0 THEN [q |-> 0, t |-> 0]
    ELSE Fl(x.q + y.q)

\* The entry map.set(key, {...}) creates.
NewVoxel(key, d, nB) ==
    [key |-> key, sL |-> 0, sC |-> 0, sHx |-> Fl(0), sHy |-> Fl(0), tot |-> 0, n |-> 0,
     pts |-> <<>>,
     cL |-> 2 * BinIndex(d.L, L_EXTENT, nB) + 1,
     cC |-> 2 * BinIndex(d.C, C_EXTENT, nB) + 1,
     cH |-> 2 * BinIndex(d.H, H_EXTENT, nB) + 1]

\* v.sL += ...; ... v.pts.push(idx)
AddPoint(v, d, idx) ==
    LET sc == HueSinCos(d.H)
    IN  [v EXCEPT !.sL  = @ + d.L * d.count,
                  !.sC  = @ + d.C * d.count,
                  !.sHx = FlAdd(@, FlScale(sc[2], d.count)),
                  !.sHy = FlAdd(@, FlScale(sc[1], d.count)),
                  !.tot = @ + d.count,
                  !.n   = @ + 1,
                  !.pts = Append(@, idx)]

\* Mutant: the entry of a key is created anew for every point.
PutPointAlwaysNew(map, d, idx, nB) ==
    LET key == VoxelKey(d, nB)
        at  == {k \in 1..Len(map) : map[k].key = key}
    IN  IF at = {} THEN Append(map, AddPoint(NewVoxel(key, d, nB), d, idx))
        ELSE [map EXCEPT ![CHOOSE k \in at : TRUE] = AddPoint(NewVoxel(key, d, nB), d, idx)]

\* One turn of the first loop: the point goes to the entry of its key, created if
\* the map has none.  The map is its entries in insertion order.
PutPoint(map, d, idx, nB) ==
    LET key == VoxelKey(d, nB)
        at  == {k \in 1..Len(map) : map[k].key = key}
    IN  IF at = {} THEN Append(map, AddPoint(NewVoxel(key, d, nB), d, idx))
        ELSE [map EXCEPT ![CHOOSE k \in at : TRUE] = AddPoint(@, d, idx)]

RECURSIVE VoxelMap(_, _, _)
VoxelMap(flt, k, nB) ==
    IF k = 0 THEN <<>>
    ELSE PutPoint(VoxelMap(flt, k - 1, nB), pts[flt[k]], flt[k], nB)

\* s / tot in Units, for s a sum of values in 10^-4.
MeanOf(s, tot) == (s \div tot) * ROUND_STEP + RoundDiv((s % tot) * ROUND_STEP, tot)

\* Math.atan2(v.sHy, v.sHx) * 180 / Math.PI; if (aH < 0) aH += 360
MeanHue(v) ==
    CHOOSE H \in {IF FlSgn(aH) < 0 THEN aH.q + TURN ELSE aH.q :
                     aH \in {FlDegrees(FlAtan2(v.sHy, v.sHx))}} : TRUE

\* The object voxels.push({...}) adds.
VoxelOf(v) ==
    [L |-> MeanOf(v.sL, v.tot), C |-> MeanOf(v.sC, v.tot), H |-> MeanHue(v),
     tot |-> v.tot, n |-> v.n, pts |-> v.pts, cL |-> v.cL, cC |-> v.cC, cH |-> v.cH]

\* Mutant: a voxel whose count equals the threshold is skipped as well.
IsSkippedAtThreshold(v, threshold) == v.tot <= threshold

\* if (v.tot < densityThreshold) continue
IsSkipped(v, threshold) == v.tot < threshold

\* One step of the stable ascending sort of voxels.sort((a, b) => a.tot - b.tot).
RECURSIVE InsertByTot(_, _)
InsertByTot(sorted, e) ==
    IF sorted = <<>> THEN <<e>>
    ELSE IF Head(sorted).tot <= e.tot
         THEN <<Head(sorted)>> \o InsertByTot(Tail(sorted), e)
         ELSE <<e>> \o sorted

RECURSIVE SortByTot(_)
SortByTot(vs) ==
    IF vs = <<>> THEN <<>>
    ELSE InsertByTot(SortByTot(SubSeq(vs, 1, Len(vs) - 1)), vs[Len(vs)])

\* The second loop: the entries that are not skipped, as voxels, in map order.
EmitVoxels(map, threshold) ==
    LET kept == SelectSeq(map, LAMBDA v : ~IsSkipped(v, threshold))
    IN  [j \in 1..Len(kept) |-> VoxelOf(kept[j])]

\* Mutant: voxels is not emptied first.
computeVoxelsAppending(old, flt, nB, threshold) ==
    SortByTot(old \o EmitVoxels(VoxelMap(flt, Len(flt), nB), threshold))

\* computeVoxels(): voxels, which held old, becomes the voxels of the points flt.
computeVoxels(old, flt, nB, threshold) ==
    SortByTot(EmitVoxels(VoxelMap(flt, Len(flt), nB), threshold))

\* The animation frame runs a callback renderAll requested, which starts with
\* pendingRender = false.
FrameRuns ==
    /\ renderFrames > 0
    /\ renderFrames' = renderFrames - 1
    /\ pendingRender' = FALSE

\* _doRender(), which draws the plots for showMode.
doRender ==
    /\ filtered' = applyFilters(filtered)
    /\ voxels' = computeVoxels(voxels, filtered', voxelBins, densityThreshold)
    /\ shown' = showMode

\* The whole callback: pendingRender = false; _doRender().
Frame ==
    /\ FrameRuns
    /\ doRender
    /\ UNCHANGED <<pts, slider, filterL, filterC, filterH, voxelBins, densityThreshold,
                   showMode, selected, focusIdx, hoverGuard, guardFrames, zoomTimer, notView>>

NextView ==
    \/ \E axis \in {"L", "C", "H"} :
           \E id \in {MinId[axis], MaxId[axis]} :
               \E x \in SliderStops : DualInput(axis, id, x)
    \/ \E x \in VoxelStops : VoxelInput(x)
    \/ \E x \in DensityStops \cup {0} : DensityInput(x)
    \/ \E mode \in {"points", "both", "voxels"} : setMode(mode)
    \/ resetAll
    \/ ZoomTimeout
    \/ Frame

SpecView == InitView /\ [][NextView]_vars

\* The browser runs every callback passed to requestAnimationFrame at the next
\* frame: a requested render is not put off for ever.
\* (Frame is the only step that starts a callback, so the condition is on Frame.)
SpecViewFair == SpecView /\ WF_<<pendingRender, renderFrames>>(FrameRuns)

-----------------------------------------------------------------------------
(* Properties of the multiview page *)

\* A step is a render: the requested frame has run.
IsRender == pendingRender /\ ~pendingRender'

\* The number of places of the voxels' pts lists that hold the index idx.
RECURSIVE Occurrences(_, _)
Occurrences(vs, idx) ==
    IF vs = <<>> THEN 0
    ELSE Cardinality({m \in 1..Len(Head(vs).pts) : Head(vs).pts[m] = idx})
             + Occurrences(Tail(vs), idx)

RECURSIVE CountOf(_)
CountOf(flt) == IF flt = <<>> THEN 0 ELSE pts[Head(flt)].count + CountOf(Tail(flt))

\* C11: a render with densityThreshold = 0 places every filtered point in exactly
\* one voxel: its index occurs once in the pts lists of the voxels, the tot of the
\* voxels sum to the total count of the filtered points, and their n to the number
\* of filtered points.
C11_EveryPointInOneVoxel ==
    [][(IsRender /\ densityThreshold = 0) =>
          /\ \A k \in 1..Len(filtered') : Occurrences(voxels', filtered'[k]) = 1
          /\ SumOf(voxels', "tot") = CountOf(filtered')
          /\ SumOf(voxels', "n") = Len(filtered')]_vars

\* C11 witness: four points were rendered with threshold 0 into three voxels, one
\* of them holding two points.
C11_Witness ==
    /\ ~pendingRender
    /\ showMode # "none"
    /\ densityThreshold = 0
    /\ Len(filtered) = 4
    /\ Len(voxels) = 3
    /\ \E j \in 1..Len(voxels) : voxels[j].n = 2

-----------------------------------------------------------------------------
(* The plot events of the multiview page (attachEvents): hover, selection and
   click on the traces that the last render drew, whose Points trace carries
   filtered as customdata and whose Voxels trace has one marker per voxel.  The
   handlers are attached by the first render.  Of what a handler does the info
   panel, the crosshair, the marker colours, the selection text and the zoom
   are left out. *)

\* The colours of the page the events are tried on.
InteractList ==
    << <<121, 5, 62, 2>>, <<125, 21, 67, 1>>, <<255, 255, 255, 3>>, <<0, 0, 0, 1>> >>

InitInteract ==
    /\ InitView
    /\ pts = [k \in 1..Len(InteractList) |-> PointOf(InteractList[k])]

\* The traces of the drawn plots that have a marker: showPts and showVox of the
\* build functions.
HasMarkers(trace) ==
    \/ trace = "Points" /\ shown \in {"points", "both"} /\ Len(filtered) > 0
    \/ trace = "Voxels" /\ shown \in {"voxels", "both"} /\ Len(voxels) > 0

\* The statements between hoverGuard = true and requestAnimationFrame raise:
\* showVoxelInfo reads evt.event.clientX, and the event data has no event member.
BodyRaises(trace, withEvent) == trace = "Voxels" /\ ~withEvent

\* The plotly_hover handler on a marker of the trace; withEvent tells whether the
\* event data carries the mouse event.  Nothing after a raise is run.
Hover(trace, withEvent) ==
    /\ HasMarkers(trace)
    /\ IF hoverGuard
       THEN UNCHANGED <<hoverGuard, guardFrames>>
       ELSE /\ hoverGuard' = TRUE
            /\ guardFrames' = IF BodyRaises(trace, withEvent) THEN guardFrames
                               ELSE guardFrames + 1
    /\ UNCHANGED <<pts, slider, filterL, filterC, filterH, voxelBins, densityThreshold,
                   showMode, pendingRender, renderFrames, filtered, voxels, shown,
                   selected, focusIdx, zoomTimer, notView>>

\* The plotly_unhover handler; hideCrosshair and hideVoxelTip do not raise.
Unhover ==
    /\ shown # "none"
    /\ IF hoverGuard
       THEN UNCHANGED <<hoverGuard, guardFrames>>
       ELSE /\ hoverGuard' = TRUE
            /\ guardFrames' = guardFrames + 1
    /\ UNCHANGED <<pts, slider, filterL, filterC, filterH, voxelBins, densityThreshold,
                   showMode, pendingRender, renderFrames, filtered, voxels, shown,
                   selected, focusIdx, zoomTimer, notView>>

\* The animation frame runs a callback of a hover handler: hoverGuard = false.
GuardFrame ==
    /\ guardFrames > 0
    /\ guardFrames' = guardFrames - 1
    /\ hoverGuard' = FALSE
    /\ UNCHANGED <<pts, slider, filterL, filterC, filterH, voxelBins, densityThreshold,
                   showMode, pendingRender, renderFrames, filtered, voxels, shown,
                   selected, focusIdx, zoomTimer, notView>>

\* dist <= radius of focusOnPoint, for radius 0.08: the squares of dL and dC in
\* 10^-8 and of the hue distance in 10^-2 degree over 360, all times 324.
IsNear(p, d) ==
    LET dL == Abs(p.L - d.L)
        dC == Abs(p.C - d.C)
        dH == Min(Abs(p.H - d.H), H_EXTENT - Abs(p.H - d.H))
    IN  /\ dL <= 800
        /\ dC <= 800
        /\ dH <= 2880
        /\ 324 * (dL * dL + dC * dC) + 25 * dH * dH <= 324 * 640000

\* The set focusOnPoint(idx) leaves in selected: the filtered points near pts[idx].
Neighbourhood(idx) ==
    {filtered[k] : k \in {j \in 1..Len(filtered) : IsNear(pts[filtered[j]], pts[idx])}}

\* The points of the voxels at the places vs of the Voxels trace.
PointsOfVoxels(vs) == UNION {{voxels[v].pts[m] : m \in 1..Len(voxels[v].pts)} : v \in vs}

\* The plotly_selected handler of a 2D view: without event data the selection is
\* cleared; else it becomes the points at the places ps of the Points trace and
\* the points of the voxels at the places vs, and a single point is focused on.
Selected(hasPoints, ps, vs) ==
    LET picked == {filtered[k] : k \in ps} \cup PointsOfVoxels(vs)
    IN  /\ shown # "none"
        /\ (ps # {} => HasMarkers("Points"))
        /\ (vs # {} => HasMarkers("Voxels"))
        /\ (~hasPoints => ps = {} /\ vs = {})
        /\ IF hasPoints /\ Cardinality(picked) = 1
           THEN /\ focusIdx' = CHOOSE idx \in picked : TRUE
                /\ selected' = Neighbourhood(focusIdx')
           ELSE /\ selected' = picked
                /\ focusIdx' = focusIdx
        /\ UNCHANGED <<pts, slider, filterL, filterC, filterH, voxelBins,
                       densityThreshold, showMode, pendingRender, renderFrames, filtered,
                       voxels, shown, hoverGuard, guardFrames, zoomTimer, notView>>

\* The plotly_deselect handler of a 2D view.
Deselect ==
    /\ shown # "none"
    /\ selected' = {}
    /\ UNCHANGED <<pts, slider, filterL, filterC, filterH, voxelBins, densityThreshold,
                   showMode, pendingRender, renderFrames, filtered, voxels, shown,
                   focusIdx, hoverGuard, guardFrames, zoomTimer, notView>>

\* The plotly_click handler on the marker at place k of the trace: focusOnPoint
\* for a point, drillIntoVoxel for a voxel.
Click(trace, k) ==
    /\ HasMarkers(trace)
    /\ IF trace = "Points"
       THEN /\ k <= Len(filtered)
            /\ focusIdx' = filtered[k]
            /\ selected' = Neighbourhood(focusIdx')
       ELSE /\ k <= Len(voxels)
            /\ focusIdx' = focusIdx
            /\ selected' = PointsOfVoxels({k})
    /\ UNCHANGED <<pts, slider, filterL, filterC, filterH, voxelBins, densityThreshold,
                   showMode, pendingRender, renderFrames, filtered, voxels, shown,
                   hoverGuard, guardFrames, zoomTimer, notView>>

\* The hover events beside the lightness filter and the mode buttons.
NextHover ==
    \/ \E id \in {"fL-min", "fL-max"} : \E x \in SliderStops : DualInput("L", id, x)
    \/ \E mode \in {"points", "both", "voxels"} : setMode(mode)
    \/ Frame
    \/ \E trace \in {"Points", "Voxels"} : \E withEvent \in BOOLEAN : Hover(trace, withEvent)
    \/ Unhover
    \/ GuardFrame

SpecHover == InitInteract /\ [][NextHover]_vars

\* The browser runs every callback passed to requestAnimationFrame at the next
\* frame, those of the hover handlers as well as those of renderAll.
SpecHoverFair ==
    /\ SpecHover
    /\ WF_<<pendingRender, renderFrames>>(FrameRuns)
    /\ WF_<<hoverGuard, guardFrames>>(GuardFrame)

\* The selection and click events beside the lightness filter, the voxel and
\* density sliders, the mode buttons and the reset button.
NextInteract ==
    \/ \E id \in {"fL-min", "fL-max"} : \E x \in SliderStops : DualInput("L", id, x)
    \/ VoxelInput(VOXEL_MIN)
    \/ DensityInput(SLIDER_MAX)
    \/ \E mode \in {"points", "both", "voxels"} : setMode(mode)
    \/ resetAll
    \/ ZoomTimeout
    \/ Frame
    \/ \E ps \in SUBSET (1..Len(filtered)) : \E vs \in SUBSET (1..Len(voxels)) :
           Selected(TRUE, ps, vs)
    \/ Selected(FALSE, {}, {})
    \/ Deselect
    \/ \E trace \in {"Points", "Voxels"} : \E k \in 1..Len(pts) : Click(trace, k)

SpecInteract == InitInteract /\ [][NextInteract]_vars

-----------------------------------------------------------------------------
\* Properties of the plot events.

\* C25: hoverGuard, once a hover or unhover handler has set it, is reset at the
\* next animation frame on every path through the handler, a path where the body
\* raises included: a set guard always leads to a cleared one, so hover handling
\* is never disabled for good.
C25_GuardAlwaysReset == hoverGuard ~> ~hoverGuard

\* A step is a reset: resetAll has started its timeout, none pending before.
IsReset == ~zoomTimer /\ zoomTimer'

\* C27: resetAll sets filterL, filterC and filterH to the full ranges [0, 1],
\* [0, 0.4] and [0, 360], empties selected and sets focusIdx to -1, and leaves
\* voxelBins, densityThreshold and showMode as they are.
C27_ResetRestoresFiltersOnly ==
    [][IsReset =>
          /\ filterL' = <<0, L_EXTENT>>
          /\ filterC' = <<0, C_EXTENT>>
          /\ filterH' = <<0, H_EXTENT>>
          /\ selected' = {}
          /\ focusIdx' = -1
          /\ voxelBins' = voxelBins
          /\ densityThreshold' = densityThreshold
          /\ showMode' = showMode]_vars

\* C27 witness: reset was pressed with a narrowed filter, a selection, a focus,
\* and the voxel slider, the density slider and the mode off their defaults, of
\* which the last three are as they were and the render is still to come.
C27_Witness ==
    /\ zoomTimer
    /\ pendingRender
    /\ filterL = <<0, L_EXTENT>>
    /\ Len(filtered) < Len(pts)
    /\ selected = {}
    /\ focusIdx = -1
    /\ voxelBins = VOXEL_MIN
    /\ densityThreshold > 0
    /\ showMode = "points"

\* C28: when the page has rendered and no render is pending, every selected
\* index is one of filtered: the selection holds no point that the filters exclude.
C28_SelectedWithinFiltered ==
    (shown # "none" /\ ~pendingRender) =>
        selected \subseteq {filtered[k] : k \in 1..Len(filtered)}

\* C29: on the open page each filter pair has lo <= hi, so hueInRange never takes
\* its wrap-around branch in applyFilters.
C29_FilterPairsOrdered ==
    showMode # "none" =>
        /\ filterL[1] <= filterL[2]
        /\ filterC[1] <= filterC[2]
        /\ filterH[1] <= filterH[2]

\* C29 witness: the hue sliders were both moved to their maximum and the page
\* has rendered the points of hue 360.0 that the pair [360, 360] lets through.
C29_Witness ==
    /\ ~pendingRender
    /\ filterH = <<H_EXTENT, H_EXTENT>>
    /\ slider["fH-min"] = SLIDER_MAX
    /\ slider["fH-max"] = SLIDER_MAX
    /\ Len(filtered) > 0

\* What the page shows is what _doRender computes from the present values of the
\* filters, voxelBins, densityThreshold and showMode.
UpToDate ==
    /\ filtered = applyFilters(<<>>)
    /\ voxels = computeVoxels(<<>>, filtered, voxelBins, densityThreshold)
    /\ shown = showMode

\* C24: at most one animation-frame render is requested at any time, and it is
\* requested exactly while pendingRender is true (renderAll called while it is true
\* requests nothing); the frame clears pendingRender and renders in one go, so with
\* no render pending the page shows the latest parameter values; and a pending
\* render is eventually run, after which the page shows the latest values.
C24_OnePendingRenderReadsLatest ==
    /\ [](renderFrames <= 1 /\ (pendingRender <=> renderFrames = 1))
    /\ [](~pendingRender => UpToDate)
    /\ (pendingRender ~> (~pendingRender /\ UpToDate))

\* C24 witness: since the last render the mode and a filter were changed, the
\* second renderAll found pendingRender set, and one frame is requested.
C24_Witness ==
    /\ pendingRender
    /\ renderFrames = 1
    /\ shown \notin {"none", showMode}
    /\ filterL # <<0, L_EXTENT>>
    /\ Len(pts) > 0

-----------------------------------------------------------------------------
(* The tone map page (_generate_html of visualize_tone_map.py): the records that
   create_tone_map embeds, the two division sliders, and the three functions the
   script runs on load and on every slider input, one loop turn at a time.  A
   handler runs to its end before the next event is taken.  Of a drawn sub-bin
   the indices and the count are kept. *)

H_BINS == 24

\* C_MAX = 0.35 in the unit of a record's C.
C_MAX == 3500

\* The tolerance of isInSrgbGamut, 0.001, and the default of is_in_srgb_gamut, 1e-6.
TONE_EPS == 100000

DEFAULT_EPSILON == 100

\* The values the division sliders take (each from 4 up).
LDivStops == {4, 5}

CDivStops == {4, 5}

\* {"L": round(L, 4), ..., "count": color["Count"]}
ToneRecordOf(c) ==
    CHOOSE d \in {[L |-> rec.L, C |-> rec.C, H |-> rec.H, count |-> c[4]] :
                      rec \in {OklchRecord("tone_map", <<c[1], c[2], c[3]>>)}} : TRUE

\* The linear channels of (L, C, H), not clamped.  (A value bound in a set is
\* computed once, however often it is used.)
LinearOf(L, C, H) ==
    CHOOSE lin \in {oklab_to_linear_srgb(lab[1], lab[2], lab[3]) :
                       lab \in {oklch_to_oklab(L, C, H)}} : TRUE

WithinGamut(lin, eps) == \A k \in 1..3 : lin[k] >= -eps /\ lin[k] <= Unit + eps

\* color_utils.is_in_srgb_gamut
is_in_srgb_gamut(L, C, H, epsilon) ==
    \E lin \in {LinearOf(L, C, H)} : WithinGamut(lin, epsilon)

\* Mutant: the tolerance of the Python test.
isInSrgbGamutTight(L, C, H) ==
    \E lin \in {LinearOf(L, C, H)} : WithinGamut(lin, DEFAULT_EPSILON)

\* isInSrgbGamut of the page.
isInSrgbGamut(L, C, H) ==
    \E lin \in {LinearOf(L, C, H)} : WithinGamut(lin, TONE_EPS)

\* The bisection of maxGamutChroma keeps lo and hi as multiples of 0.4 / 2^20:
\* BISECT_TOP of them are 0.4, and GridChroma(k) is k of them in Units.
BISECT_TOP == 1048576

BISECT_TURNS == 20

GridChroma(k) == (k \div 2048) * 78125 + RoundDiv((k % 2048) * 78125, 2048)

\* Mutant: the in-gamut half is dropped.
HalveSwapped(b, L, H) ==
    LET mid == (b.lo + b.hi) \div 2
    IN  IF isInSrgbGamut(L, GridChroma(mid), H) THEN [lo |-> b.lo, hi |-> mid]
        ELSE [lo |-> mid, hi |-> b.hi]

\* One turn of the loop: mid = (lo + hi) / 2; lo = mid if it is in gamut, else hi = mid.
Halve(b, L, H) ==
    LET mid == (b.lo + b.hi) \div 2
    IN  IF isInSrgbGamut(L, GridChroma(mid), H) THEN [lo |-> mid, hi |-> b.hi]
        ELSE [lo |-> b.lo, hi |-> mid]

\* n turns of the loop, each on the value the turn before it left.
RECURSIVE Bisect(_, _, _, _)
Bisect(b, n, L, H) ==
    IF n = 0 THEN b
    ELSE CHOOSE last \in {Bisect(next, n - 1, L, H) : next \in {Halve(b, L, H)}} : TRUE

\* maxGamutChroma(L, H), in Units.
maxGamutChroma(L, H) ==
    GridChroma(Bisect([lo |-> 0, hi |-> BISECT_TOP], BISECT_TURNS, L, H).lo)

\* The centre of a cell: (li + 0.5) * lStep, (ci + 0.5) * cStep, (hi + 0.5) * hStep.
CentreL(li, nL) == RoundDiv((2 * li + 1) * (Unit \div 2), nL)

CentreC(ci, nC) == RoundDiv((2 * ci + 1) * ((C_MAX * ROUND_STEP) \div 2), nC)

CentreH(hi) == (2 * hi + 1) * (TURN \div (2 * H_BINS))

\* The lists the tone map page is made from: those of the multiview page, and
\* one of twelve colours in twelve bins.
ToneLists ==
    ViewLists \cup
    { << <<255, 0, 0, 1>>, <<0, 255, 0, 2>>, <<0, 0, 255, 3>>, <<255, 255, 0, 4>>,
         <<0, 255, 255, 5>>, <<255, 0, 255, 6>>, <<128, 0, 0, 7>>, <<0, 128, 0, 8>>,
         <<0, 0, 128, 9>>, <<255, 128, 0, 10>>, <<128, 0, 255, 11>>, <<0, 128, 255, 12>> >> }

\* The script as it is loaded: the declarations, and computeMaxGamutC() entered.
InitTone ==
    /\ colorData \in {[k \in 1..Len(cs) |-> ToneRecordOf(cs[k])] : cs \in ToneLists}
    /\ lDivs \in LDivStops
    /\ cDivs \in CDivStops
    /\ lSlider = lDivs
    /\ cSlider = cDivs
    /\ bins = <<>>
    /\ normCount = [num |-> 1, den |-> 1]
    /\ maxGamutCCache = <<>>
    /\ cellGeom = <<>>
    /\ statsText = [bins |-> 0, pixels |-> 0]
    /\ running = "computeMaxGamutC"
    /\ loop = [turns |-> 0, bins |-> 0, pixels |-> 0]
    /\ NoExtraction
    /\ NoConversion
    /\ NoMultiview
    /\ NoSlice
    /\ NoTools

\* Mutant: the object is kept.
KeptObject(old) == old

\* x = {} or x = []: the object that held old is replaced by an empty one.
EmptyObject(old) == <<>>

\* The input listener of either slider, up to the first loop of computeMaxGamutC.
onSliderChange(id, x) ==
    /\ running = "idle"
    /\ x # (IF id = "lDivsSlider" THEN lSlider ELSE cSlider)
    /\ lSlider' = IF id = "lDivsSlider" THEN x ELSE lSlider
    /\ cSlider' = IF id = "cDivsSlider" THEN x ELSE cSlider
    /\ lDivs' = lSlider'
    /\ cDivs' = cSlider'
    /\ maxGamutCCache' = EmptyObject(maxGamutCCache)
    /\ running' = "computeMaxGamutC"
    /\ loop' = [turns |-> 0, bins |-> 0, pixels |-> 0]
    /\ UNCHANGED <<colorData, bins, normCount, cellGeom, statsText, notTone>>

\* One turn of the inner loop of computeMaxGamutC.
GamutTurn ==
    /\ running = "computeMaxGamutC"
    /\ loop.turns < lDivs * H_BINS
    /\ LET li == loop.turns \div H_BINS
           hi == loop.turns % H_BINS
       IN  maxGamutCCache' =
               (<<li, hi>> :> maxGamutChroma(CentreL(li, lDivs), CentreH(hi))) @@ maxGamutCCache
    /\ loop' = [loop EXCEPT !.turns = @ + 1]
    /\ UNCHANGED <<colorData, lSlider, cSlider, lDivs, cDivs, bins, normCount, cellGeom,
                   statsText, running, notTone>>

\* computeMaxGamutC returns and binData is entered: bins = {}.
binDataBegin ==
    /\ running = "computeMaxGamutC"
    /\ loop.turns = lDivs * H_BINS
    /\ bins' = EmptyObject(bins)
    /\ running' = "binData"
    /\ loop' = [loop EXCEPT !.turns = 0]
    /\ UNCHANGED <<colorData, lSlider, cSlider, lDivs, cDivs, normCount, maxGamutCCache,
                   cellGeom, statsText, notTone>>

\* Mutant: the hue index is not wrapped.
ToneKeyUnwrapped(d, nL, nC) ==
    <<BinIndex(d.L, L_EXTENT, nL), BinIndex(d.C, C_MAX, nC), (d.H * H_BINS) \div H_EXTENT>>

\* <<li, ci, hi>> of a record.
ToneKey(d, nL, nC) ==
    <<BinIndex(d.L, L_EXTENT, nL), BinIndex(d.C, C_MAX, nC),
      ((d.H * H_BINS) \div H_EXTENT) % H_BINS>>

\* Mutant: a record of the last lightness cell's upper edge is left out.
IsBinnedBelowEdge(d, nL, nC) ==
    /\ ~(d.C > C_MAX)
    /\ d.L < L_EXTENT
    /\ ~(ToneKey(d, nL, nC)[1] < 0 \/ ToneKey(d, nL, nC)[2] < 0)

\* The record is not passed over by one of the two continue statements.
IsBinned(d, nL, nC) ==
    /\ ~(d.C > C_MAX)
    /\ ~(ToneKey(d, nL, nC)[1] < 0 \/ ToneKey(d, nL, nC)[2] < 0)

\* bins[key] = (bins[key] || 0) + d.count
AddToBin(b, key, count) ==
    IF key \in DOMAIN b THEN [b EXCEPT ![key] = @ + count] ELSE (key :> count) @@ b

\* One turn of the loop of binData.
BinTurn ==
    /\ running = "binData"
    /\ loop.turns < Len(colorData)
    /\ LET d == colorData[loop.turns + 1]
       IN  bins' = IF IsBinned(d, lDivs, cDivs)
                   THEN AddToBin(bins, ToneKey(d, lDivs, cDivs), d.count)
                   ELSE bins
    /\ loop' = [loop EXCEPT !.turns = @ + 1]
    /\ UNCHANGED <<colorData, lSlider, cSlider, lDivs, cDivs, normCount, maxGamutCCache,
                   cellGeom, statsText, running, notTone>>

\* The sum of the n largest values of b over keys.
RECURSIVE TopSum(_, _, _)
TopSum(b, keys, n) ==
    IF n = 0 \/ keys = {} THEN 0
    ELSE LET top == CHOOSE k \in keys : \A j \in keys : b[j] <= b[k]
         IN  b[top] + TopSum(b, keys \ {top}, n - 1)

\* Mutant: the largest count whatever the number of bins.
NormOfLargest(b) ==
    IF Cardinality(DOMAIN b) > 0 THEN [num |-> TopSum(b, DOMAIN b, 1), den |-> 1]
    ELSE [num |-> 1, den |-> 1]

\* The normalisation at the end of binData.
NormOf(b) ==
    IF Cardinality(DOMAIN b) >= 10 THEN [num |-> TopSum(b, DOMAIN b, 10), den |-> 10]
    ELSE IF Cardinality(DOMAIN b) > 0 THEN [num |-> TopSum(b, DOMAIN b, 1), den |-> 1]
    ELSE [num |-> 1, den |-> 1]

\* The end of binData, and render up to its loop: cellGeom = [], the totals 0.
renderBegin ==
    /\ running = "binData"
    /\ loop.turns = Len(colorData)
    /\ normCount' = NormOf(bins)
    /\ cellGeom' = EmptyObject(cellGeom)
    /\ running' = "render"
    /\ loop' = [turns |-> 0, bins |-> 0, pixels |-> 0]
    /\ UNCHANGED <<colorData, lSlider, cSlider, lDivs, cDivs, bins, maxGamutCCache,
                   statsText, notTone>>

\* The whole part of the square root of x, sought between lo and hi.
RECURSIVE SqrtBetween(_, _, _)
SqrtBetween(x, lo, hi) ==
    IF hi - lo <= 1 THEN lo
    ELSE LET mid == (lo + hi) \div 2
         IN  IF mid * mid <= x THEN SqrtBetween(x, mid, hi) ELSE SqrtBetween(x, lo, mid)

\* The scale of an opacity: alpha is held in thousandths, rounded down.
ALPHA_ONE == 1000

\* count > 0 ? Math.min(1, 0.12 + 0.88 * Math.sqrt(count / normCount)) : 0
AlphaOf(count, norm) ==
    IF count > 0
    THEN Min(ALPHA_ONE,
             120 + (880 * SqrtBetween((count * norm.den * ALPHA_ONE * ALPHA_ONE) \div norm.num,
                                      0, 46341)) \div ALPHA_ONE)
    ELSE 0

\* Mutant: a sub-bin out of gamut is drawn as well.
IsDrawnAlways(li, ci, hi) == TRUE

\* if (!isInSrgbGamut(Lc, Cc, Hc)) continue
IsDrawn(li, ci, hi) == isInSrgbGamut(CentreL(li, lDivs), CentreC(ci, cDivs), CentreH(hi))

\* One turn of the innermost loop of render.
RenderTurn ==
    /\ running = "render"
    /\ loop.turns < lDivs * cDivs * H_BINS
    /\ LET li    == loop.turns \div (cDivs * H_BINS)
           ci    == (loop.turns \div H_BINS) % cDivs
           hi    == loop.turns % H_BINS
           key   == <<li, ci, hi>>
           count == IF key \in DOMAIN bins THEN bins[key] ELSE 0
       IN  IF IsDrawn(li, ci, hi)
           THEN /\ cellGeom' = Append(cellGeom, [li |-> li, ci |-> ci, hi |-> hi, count |-> count,
                                                 alpha |-> AlphaOf(count, normCount)])
                /\ loop' = [turns  |-> loop.turns + 1,
                            bins   |-> loop.bins + (IF count > 0 THEN 1 ELSE 0),
                            pixels |-> loop.pixels + count]
           ELSE /\ cellGeom' = cellGeom
                /\ loop' = [loop EXCEPT !.turns = @ + 1]
    /\ UNCHANGED <<colorData, lSlider, cSlider, lDivs, cDivs, bins, normCount,
                   maxGamutCCache, statsText, running, notTone>>

\* The end of render: the statistics line is written and the handler returns.
renderEnd ==
    /\ running = "render"
    /\ loop.turns = lDivs * cDivs * H_BINS
    /\ statsText' = [bins |-> loop.bins, pixels |-> loop.pixels]
    /\ running' = "idle"
    /\ UNCHANGED <<colorData, lSlider, cSlider, lDivs, cDivs, bins, normCount,
                   maxGamutCCache, cellGeom, loop, notTone>>

NextTone ==
    \/ \E x \in LDivStops : onSliderChange("lDivsSlider", x)
    \/ \E x \in CDivStops : onSliderChange("cDivsSlider", x)
    \/ GamutTurn
    \/ binDataBegin
    \/ BinTurn
    \/ renderBegin
    \/ RenderTurn
    \/ renderEnd

SpecTone == InitTone /\ [][NextTone]_vars

-----------------------------------------------------------------------------
\* Properties of the tone map page.

\* The cells of the grid.
ToneGrid == (0..(lDivs - 1)) \X (0..(cDivs - 1)) \X (0..(H_BINS - 1))

\* The cell of n equal cells of [0, extent) that holds v; the last cell holds
\* every v at or beyond the extent.
CellOf(v, extent, n) ==
    IF v >= extent THEN n - 1
    ELSE CHOOSE c \in 0..(n - 1) : c * extent <= v * n /\ v * n < (c + 1) * extent

\* The records binData has gone through: all of them once its loop has ended.
Binned ==
    IF running = "binData" THEN SubSeq(colorData, 1, loop.turns) ELSE colorData

\* The count a sequence of records holds in the cell key.
RECURSIVE CountIn(_, _)
CountIn(recs, key) ==
    IF recs = <<>> THEN 0
    ELSE (IF /\ key[1] = CellOf(Head(recs).L, L_EXTENT, lDivs)
             /\ key[2] = CellOf(Head(recs).C, C_MAX, cDivs)
             /\ key[3] = CellOf(Head(recs).H % H_EXTENT, H_EXTENT, H_BINS)
          THEN Head(recs).count ELSE 0) + CountIn(Tail(recs), key)

\* The sum of the values of bins over a set of keys.
RECURSIVE BinSum(_)
BinSum(keys) ==
    IF keys = {} THEN 0
    ELSE LET key == CHOOSE k \in keys : TRUE IN bins[key] + BinSum(keys \ {key})

-----------------------------------------------------------------------------
\* Properties of the voxels of the multiview page.

\* The cell of the voxel grid that holds point idx.
CellKey(idx, nB) ==
    <<CellOf(pts[idx].L, L_EXTENT, nB), CellOf(pts[idx].C, C_EXTENT, nB),
      CellOf(pts[idx].H, H_EXTENT, nB)>>

\* The elements of a sequence.
Range(seq) == {seq[k] : k \in 1..Len(seq)}

\* The points of flt that lie in cell.
Members(flt, cell, nB) == {idx \in Range(flt) : CellKey(idx, nB) = cell}

\* The total count of a set of points.
RECURSIVE TotalOf(_)
TotalOf(idxs) ==
    IF idxs = {} THEN 0
    ELSE LET idx == CHOOSE x \in idxs : TRUE IN pts[idx].count + TotalOf(idxs \ {idx})

\* The cell a voxel was made for.
CellOfVoxel(v) == <<(v.cL - 1) \div 2, (v.cC - 1) \div 2, (v.cH - 1) \div 2>>

\* C13: at every render a populated cell has a voxel iff the total count of its
\* points is at least densityThreshold, the voxels are one per such cell and hold
\* the points and the count of their own cell only, so the points of a cell
\* below the threshold are in no voxel; with threshold 0 every populated cell
\* has its voxel.
C13_EmittedIffAtThreshold ==
    [][IsRender =>
         LET cells == {CellKey(idx, voxelBins) : idx \in Range(filtered')}
             kept  == {cell \in cells :
                          TotalOf(Members(filtered', cell, voxelBins)) >= densityThreshold}
         IN  /\ \A cell \in cells :
                    cell \in kept <=> \E j \in 1..Len(voxels') : CellOfVoxel(voxels'[j]) = cell
             /\ Len(voxels') = Cardinality(kept)
             /\ \A j \in 1..Len(voxels') :
                    /\ Range(voxels'[j].pts) = Members(filtered', CellOfVoxel(voxels'[j]), voxelBins)
                    /\ Len(voxels'[j].pts) = Cardinality(Range(voxels'[j].pts))
                    /\ voxels'[j].tot = TotalOf(Range(voxels'[j].pts))
             /\ densityThreshold = 0 => Len(voxels') = Cardinality(cells)]_vars

\* A render has emitted a voxel of two points whose count equals the threshold
\* and has dropped a point that passes the filters.
C13_Witness ==
    /\ ~pendingRender
    /\ showMode # "none"
    /\ densityThreshold > 0
    /\ \E j \in 1..Len(voxels) : voxels[j].tot = densityThreshold /\ voxels[j].n = 2
    /\ \E k \in 1..Len(filtered) : Occurrences(voxels, filtered[k]) = 0

\* C14: the mean hue of every voxel lies in [0, 360).
C14_MeanHueBelow360 ==
    \A j \in 1..Len(voxels) : 0 <= voxels[j].H /\ voxels[j].H < TURN

-----------------------------------------------------------------------------
\* Properties of the tone map's render.

\* The centre of the sub-bin passes the gamut test of the page.
CentreInGamut(key) ==
    isInSrgbGamut(CentreL(key[1], lDivs), CentreC(key[2], cDivs), CentreH(key[3]))

\* The sub-bins of cellGeom.
Drawn == {<<cellGeom[k].li, cellGeom[k].ci, cellGeom[k].hi>> : k \in 1..Len(cellGeom)}

\* C15: when render has returned, cellGeom holds a sub-bin of the grid iff its
\* centre is in gamut, once and with the count of its bin, and the statistics
\* count the bins with data and the pixels of these sub-bins only.
C15_OutputIffCentreInGamut ==
    running = "idle" =>
        LET inside == {key \in ToneGrid : CentreInGamut(key)}
        IN  /\ Drawn = inside
            /\ Len(cellGeom) = Cardinality(inside)
            /\ \A k \in 1..Len(cellGeom) :
                   LET key == <<cellGeom[k].li, cellGeom[k].ci, cellGeom[k].hi>>
                   IN  cellGeom[k].count = IF key \in DOMAIN bins THEN bins[key] ELSE 0
            /\ statsText.bins = Cardinality({key \in DOMAIN bins \cap inside : bins[key] > 0})
            /\ statsText.pixels = BinSum(DOMAIN bins \cap inside)

\* render has returned with pixels binned in a sub-bin whose centre is out of
\* gamut: the sub-bin is not in cellGeom and the statistics leave its pixels out.
C15_Witness ==
    /\ running = "idle"
    /\ \E key \in DOMAIN bins :
           /\ bins[key] > 0
           /\ ~CentreInGamut(key)
           /\ key \notin Drawn
    /\ statsText.pixels < BinSum(DOMAIN bins)
    /\ statsText.pixels > 0

-----------------------------------------------------------------------------
(* The pipeline: extract_colors.py writes the colours of an image to a CSV file,
   visualize_tone_map.py and visualize_multiview.py read it and write their
   pages, and the pages are opened and used one after the other, the tone map
   first.  The pages share no state. *)

\* The sizes of an image without pixels.
EmptySizes == {<<0, 0>>, <<0, 1>>, <<1, 0>>}

\* The images without pixels, an image of one pixel and one of four.
PipelineImages ==
    {[w |-> s[1], h |-> s[2], data |-> <<>>] : s \in EmptySizes}
        \cup {[w |-> 1, h |-> 1, data |-> <<(<<255, 0, 0>>)>>],
              [w |-> 2, h |-> 2, data |-> <<(<<255, 255, 255>>), (<<0, 0, 255>>),
                                            (<<0, 10, 255>>), (<<255, 255, 255>>)>>]}

InitPipeline ==
    /\ image \in PipelineImages
    /\ InitCommon
    /\ NoConversion
    /\ NoPages
    /\ NoTools

\* The rows load_colors_csv reads back from the file save_colors_to_csv wrote.
CsvRows == [k \in 1..Len(returned[TRUE].colors) |->
               LET color == returned[TRUE].colors[k]
               IN  <<color.R, color.G, color.B, color.Count>>]

\* --l-divs and --c-divs of the run of visualize_tone_map.py.
PIPELINE_DIVS == 4

\* The tone map page made from the file is loaded, up to the first loop of
\* computeMaxGamutC.
OpenToneMap(l_divs, c_divs) ==
    /\ pc = "idle"
    /\ returned[TRUE].called
    /\ running = "none"
    /\ \E rows \in {CsvRows} : colorData' = [k \in 1..Len(rows) |-> ToneRecordOf(rows[k])]
    /\ lDivs' = l_divs
    /\ cDivs' = c_divs
    /\ lSlider' = l_divs
    /\ cSlider' = c_divs
    /\ maxGamutCCache' = EmptyObject(maxGamutCCache)
    /\ running' = "computeMaxGamutC"
    /\ UNCHANGED <<bins, normCount, cellGeom, statsText, loop, notTone>>

\* The multiview page made from the file is loaded.
OpenMultiview ==
    /\ running = "idle"
    /\ showMode = "none"
    /\ \E rows \in {CsvRows} : pts' = [k \in 1..Len(rows) |-> PointOf(rows[k])]
    /\ slider' = [id \in {"fL-min", "fL-max", "fC-min", "fC-max", "fH-min", "fH-max",
                          "voxelSlider", "densitySlider"} |->
                     CASE id \in {"fL-min", "fC-min", "fH-min"} -> 0
                       [] id \in {"fL-max", "fC-max", "fH-max"} -> SLIDER_MAX
                       [] id = "voxelSlider" -> 12
                       [] id = "densitySlider" -> 0]
    /\ filterL' = <<0, L_EXTENT>>
    /\ filterC' = <<0, C_EXTENT>>
    /\ filterH' = <<0, H_EXTENT>>
    /\ voxelBins' = 12
    /\ densityThreshold' = 0
    /\ showMode' = "both"
    /\ renderAll
    /\ UNCHANGED <<filtered, voxels, interaction, notView>>

NextPipeline ==
    \/ Call(TRUE)
    \/ LoopStep
    \/ Return
    \/ OpenToneMap(PIPELINE_DIVS, PIPELINE_DIVS)
    \/ showMode = "none" /\ NextTone
    \/ OpenMultiview
    \/ \E axis \in {"L", "C"} :
           \E id \in {MinId[axis], MaxId[axis]} :
               \E x \in SliderStops : DualInput(axis, id, x)
    \/ \E x \in VoxelStops : VoxelInput(x)
    \/ \E x \in DensityStops \cup {0} : DensityInput(x)
    \/ \E mode \in {"points", "both", "voxels"} : setMode(mode)
    \/ Frame

SpecPipeline == InitPipeline /\ [][NextPipeline]_vars

\* C16: get_colors_from_image returns an empty list for an image without pixels;
\* a render of the multiview page that no point passes, because there is none or
\* because the filters exclude them all, leaves voxels empty; binData over no
\* records leaves bins empty and normCount 1.
C16_EmptyInputsGiveEmptyResults ==
    /\ (returned[TRUE].called /\ image.w * image.h = 0) => returned[TRUE].colors = <<>>
    /\ (showMode # "none" /\ ~pendingRender /\ (pts = <<>> \/ filterC[1] = C_EXTENT)) =>
           filtered = <<>> /\ voxels = <<>>
    /\ (running \in {"render", "idle"} /\ colorData = <<>>) =>
           bins = <<>> /\ normCount = [num |-> 1, den |-> 1]

\* The colours of an image without pixels have gone through both pages: the
\* multiview page has rendered and the tone map page has binned and rendered.
C16_Witness ==
    /\ image.w * image.h = 0
    /\ returned[TRUE].called
    /\ showMode # "none" /\ ~pendingRender /\ pts = <<>> /\ voxels = <<>>
    /\ running = "idle" /\ colorData = <<>> /\ bins = <<>>

-----------------------------------------------------------------------------
\* Properties of the pages together.

\* binData run from empty bins over the first n records, with the current
\* lDivs and cDivs.
RECURSIVE FreshBins(_)
FreshBins(n) ==
    IF n = 0 THEN <<>>
    ELSE LET d == colorData[n]
         IN  IF IsBinned(d, lDivs, cDivs)
             THEN AddToBin(FreshBins(n - 1), ToneKey(d, lDivs, cDivs), d.count)
             ELSE FreshBins(n - 1)

\* The cells render writes from an empty cellGeom, given the bins b.
FreshCells(b) ==
    LET CountAt(key) == IF key \in DOMAIN b THEN b[key] ELSE 0
        CellAt(li, ci, hi) ==
            [li |-> li, ci |-> ci, hi |-> hi, count |-> CountAt(<<li, ci, hi>>),
             alpha |-> AlphaOf(CountAt(<<li, ci, hi>>), NormOf(b))]
        all == [t \in 1..(lDivs * cDivs * H_BINS) |->
                   CellAt((t - 1) \div (cDivs * H_BINS), ((t - 1) \div H_BINS) % cDivs,
                          (t - 1) % H_BINS)]
    IN  SelectSeq(all, LAMBDA cell : IsDrawn(cell.li, cell.ci, cell.hi))

\* C17: whatever the parameters were changed to and from before, a render of
\* the multiview page leaves the filtered list and the voxels that one pass
\* from nothing over pts gives with the current filters, voxelBins and
\* densityThreshold, and a render of the tone map page leaves the bins, the
\* normalisation and the cells that one pass from nothing over colorData gives
\* with the current lDivs and cDivs.
C17_RenderIsAFreshPass ==
    [][/\ IsRender =>
            /\ filtered' = applyFilters(<<>>)
            /\ voxels' = computeVoxels(<<>>, applyFilters(<<>>), voxelBins, densityThreshold)
            /\ pts' = pts
       /\ (running = "render" /\ running' = "idle") =>
            \E fresh \in {FreshBins(Len(colorData))} :
                /\ bins' = fresh
                /\ normCount' = NormOf(fresh)
                /\ cellGeom' = FreshCells(fresh)
                /\ colorData' = colorData]_vars

\* Both pages have rendered after their parameters were changed: the tone map
\* with both sliders moved, the multiview page with another voxelBins, a
\* density threshold and a filter that lets some of the points through.
C17_Witness ==
    /\ running = "idle" /\ lDivs # PIPELINE_DIVS /\ cDivs # PIPELINE_DIVS
    /\ Cardinality(DOMAIN bins) > 1
    /\ showMode # "none" /\ ~pendingRender
    /\ voxelBins # 12 /\ densityThreshold > 0
    /\ voxels # <<>> /\ Len(filtered) < Len(pts)

-----------------------------------------------------------------------------
(* viz.py: main checks the paths of the command line, and process_image makes
   the scatter plot of every path that exists. *)

\* The most paths on a command line.
MaxArgs == 3

\* The paths of the command lines, each with Path(path).stem: the last
\* component without its last suffix.
PathStem == {<<"a/x.png", "x">>, <<"b/x.png", "x">>, <<"y.jpg", "y">>, <<"z.tar.gz", "z.tar">>}

Paths == {e[1] : e \in PathStem}

Stem(path) == (CHOOSE e \in PathStem : e[1] = path)[2]

\* parser.parse_args() has returned; the paths of fs exist and are images.
InitViz ==
    /\ \E n \in 1..MaxArgs : \E images \in [1..n -> Paths] : \E output \in {"None", "out.html"} :
           args = [images |-> images, output |-> output]
    /\ fs \in SUBSET Paths
    /\ valid_images = <<>>
    /\ output_files = <<>>
    /\ stderr = <<>>
    /\ written = <<>>
    /\ status = <<>>
    /\ main_at = [loop |-> "check", turn |-> 0]
    /\ NoSearch
    /\ image = [w |-> 1, h |-> 1, data |-> <<(<<0, 0, 0>>)>>]
    /\ InitCommon
    /\ NoConversion
    /\ NoPages

\* One turn of the loop over args.images.
CheckPath ==
    /\ main_at.loop = "check"
    /\ main_at.turn < Len(args.images)
    /\ LET image_path == args.images[main_at.turn + 1]
       IN  IF image_path \notin fs
           THEN /\ stderr' = Append(stderr, <<"Warning: ", image_path, " not found, skipping">>)
                /\ valid_images' = valid_images
           ELSE /\ valid_images' = Append(valid_images, image_path)
                /\ stderr' = stderr
    /\ main_at' = [main_at EXCEPT !.turn = @ + 1]
    /\ UNCHANGED <<args, fs, output_files, written, status, search, extraction, conversion,
                   pages>>

\* if not valid_images: the error line and sys.exit(1).
NoValidImages ==
    /\ main_at.loop = "check"
    /\ main_at.turn = Len(args.images)
    /\ valid_images = <<>>
    /\ stderr' = Append(stderr, <<"Error: No valid images found">>)
    /\ status' = <<1>>
    /\ main_at' = [loop |-> "exit", turn |-> 0]
    /\ UNCHANGED <<args, fs, valid_images, output_files, written, search, extraction,
                   conversion, pages>>

\* output_files = [], before the loop over valid_images.
BeginProcessing ==
    /\ main_at.loop = "check"
    /\ main_at.turn = Len(args.images)
    /\ valid_images # <<>>
    /\ output_files' = <<>>
    /\ main_at' = [loop |-> "process", turn |-> 0]
    /\ UNCHANGED <<args, fs, valid_images, stderr, written, status, search, extraction,
                   conversion, pages>>

\* Mutant: the custom output whatever the number of images.
OutputArgumentAlways(valid) == args.output

\* args.output if len(valid_images) == 1 else None
OutputArgument(valid) == IF Len(valid) = 1 THEN args.output ELSE "None"

\* The path process_image writes the plot of image_path to, and returns.
process_image(image_path, output_path) ==
    IF output_path = "None" THEN Stem(image_path) \o "_scatter_3d.html" ELSE output_path

\* One turn of the loop over valid_images.
ProcessImage ==
    /\ main_at.loop = "process"
    /\ main_at.turn < Len(valid_images)
    /\ LET image_path == valid_images[main_at.turn + 1]
           path       == process_image(image_path, OutputArgument(valid_images))
       IN  /\ written' = [p \in DOMAIN written \cup {path} |->
                             IF p = path THEN image_path ELSE written[p]]
           /\ output_files' = Append(output_files, path)
    /\ main_at' = [main_at EXCEPT !.turn = @ + 1]
    /\ UNCHANGED <<args, fs, valid_images, stderr, status, search, extraction, conversion,
                   pages>>

\* The summary is printed and main returns.
Summary ==
    /\ main_at.loop = "process"
    /\ main_at.turn = Len(valid_images)
    /\ status' = <<0>>
    /\ main_at' = [loop |-> "exit", turn |-> 0]
    /\ UNCHANGED <<args, fs, valid_images, output_files, stderr, written, search, extraction,
                   conversion, pages>>

NextViz ==
    \/ CheckPath
    \/ NoValidImages
    \/ BeginProcessing
    \/ ProcessImage
    \/ Summary

SpecViz == InitViz /\ [][NextViz]_vars

\* The positions of the command line whose path exists.
Existing == {k \in DOMAIN args.images : args.images[k] \in fs}

\* C18: when main has ended, a warning was printed for each path that does not
\* exist, in order, and the others were kept; the status is 1 exactly when no
\* path exists, and then nothing was written; otherwise one path was returned
\* for each existing path, the -o path among them exactly when one path exists,
\* and every other one is <stem>_scatter_3d.html of its image; the files
\* written are the paths returned.
C18_OutputPathOnlyForOneImage ==
    status # <<>> =>
        /\ valid_images = SelectSeq(args.images, LAMBDA p : p \in fs)
        /\ SelectSeq(stderr, LAMBDA line : line[1] = "Warning: ")
               = [k \in 1..(Len(args.images) - Cardinality(Existing)) |->
                     <<"Warning: ", SelectSeq(args.images, LAMBDA p : p \notin fs)[k],
                       " not found, skipping">>]
        /\ status = <<1>> <=> Existing = {}
        /\ status = <<1>> => output_files = <<>> /\ written = <<>>
        /\ status = <<0>> =>
               /\ Len(output_files) = Cardinality(Existing)
               /\ args.output # "None" =>
                      ((\E k \in DOMAIN output_files : output_files[k] = args.output)
                           <=> Cardinality(Existing) = 1)
               /\ \A k \in DOMAIN output_files :
                      \/ output_files[k] = Stem(valid_images[k]) \o "_scatter_3d.html"
                      \/ Cardinality(Existing) = 1 /\ output_files[k] = args.output
               /\ DOMAIN written = {output_files[k] : k \in DOMAIN output_files}

\* main has returned after three paths and -o: one path that does not exist
\* was passed over, and the one that exists was written to the -o path.
C18_Witness ==
    /\ status = <<0>>
    /\ Len(args.images) = 3 /\ Len(stderr) = 2 /\ Len(valid_images) = 1
    /\ args.output # "None"
    /\ DOMAIN written = {args.output}

-----------------------------------------------------------------------------
(* maxGamutChroma, one turn of its loop at a time, for the arguments
   computeMaxGamutC calls it with: the centres of the lightness cells and of the
   hue bins. *)

InitBisect ==
    /\ \E nL \in LDivStops : \E li \in 0..(nL - 1) : \E hi \in 0..(H_BINS - 1) :
           search = [L |-> CentreL(li, nL), H |-> CentreH(hi), lo |-> 0, hi |-> BISECT_TOP,
                     turns |-> 0, value |-> <<>>]
    /\ NoCli
    /\ NoExtraction
    /\ NoConversion
    /\ NoPages

\* One turn of the loop.
HalveTurn ==
    /\ search.value = <<>>
    /\ search.turns < BISECT_TURNS
    /\ \E b \in {Halve([lo |-> search.lo, hi |-> search.hi], search.L, search.H)} :
           search' = [search EXCEPT !.lo = b.lo, !.hi = b.hi, !.turns = @ + 1]
    /\ UNCHANGED <<cli, extraction, conversion, pages>>

\* return lo
ReturnLo ==
    /\ search.value = <<>>
    /\ search.turns = BISECT_TURNS
    /\ search' = [search EXCEPT !.value = <<GridChroma(search.lo)>>]
    /\ UNCHANGED <<cli, extraction, conversion, pages>>

NextBisect ==
    \/ HalveTurn
    \/ ReturnLo

SpecBisect == InitBisect /\ [][NextBisect]_vars

\* The chromas the result is compared at: sixteenths of [0, 0.4], and lo and hi.
ChromaSamples == {(k * BISECT_TOP) \div 16 : k \in 0..16} \cup {search.lo, search.hi}

\* Among the samples, membership at (L, H) does not come back as chroma grows,
\* and chroma 0 is in gamut.
MonotoneAt(in) == 0 \in in /\ \A a, b \in ChromaSamples : (a <= b /\ b \in in) => a \in in

\* C19: at any point of maxGamutChroma(L, H), hi - lo is 0.4 halved once per
\* turn done, lo <= hi, lo is in gamut and hi is 0.4 or out of gamut; the value
\* returned after 20 turns is lo, and wherever membership is non-increasing in
\* chroma with chroma 0 in gamut, every chroma up to it is in gamut and every
\* chroma from it plus 0.4 / 2^20 on, below 0.4, is out of gamut.
C19_BisectionBracketsTheBoundary ==
    search.hi > 0 =>
        /\ search.turns <= BISECT_TURNS
        /\ search.lo <= search.hi
        /\ (search.hi - search.lo) * 2^search.turns = BISECT_TOP
        /\ isInSrgbGamut(search.L, GridChroma(search.lo), search.H)
        /\ search.hi = BISECT_TOP \/ ~isInSrgbGamut(search.L, GridChroma(search.hi), search.H)
        /\ search.value # <<>> =>
               /\ search.turns = BISECT_TURNS
               /\ search.value = <<GridChroma(search.lo)>>
               /\ search.value = <<maxGamutChroma(search.L, search.H)>>
               /\ \E in \in {{c \in ChromaSamples :
                                 isInSrgbGamut(search.L, GridChroma(c), search.H)}} :
                      MonotoneAt(in) =>
                          \A c \in ChromaSamples :
                              /\ c <= search.lo => c \in in
                              /\ (c >= search.lo + 1 /\ c < BISECT_TOP) => c \notin in

\* A call has returned a chroma strictly between two samples in gamut and two
\* out of it, where membership is non-increasing.
C19_Witness ==
    /\ search.value # <<>>
    /\ search.lo > BISECT_TOP \div 8
    /\ search.hi < BISECT_TOP - BISECT_TOP \div 8
    /\ MonotoneAt({c \in ChromaSamples : isInSrgbGamut(search.L, GridChroma(c), search.H)})

-----------------------------------------------------------------------------
\* The two gamut tests side by side.

\* C20: at the chromas maxGamutChroma has reached, the tone map's isInSrgbGamut
\* and Python's is_in_srgb_gamut with its default epsilon both accept the
\* colour exactly when each linear channel, not clamped, lies in
\* [-1e-6, 1 + 1e-6].
C20_SameToleranceInBothTests ==
    \A c \in {search.lo, search.hi} :
        \E lin \in {LinearOf(search.L, GridChroma(c), search.H)} :
            /\ is_in_srgb_gamut(search.L, GridChroma(c), search.H, DEFAULT_EPSILON)
                   <=> WithinGamut(lin, DEFAULT_EPSILON)
            /\ isInSrgbGamut(search.L, GridChroma(c), search.H)
                   <=> WithinGamut(lin, DEFAULT_EPSILON)

-----------------------------------------------------------------------------
(* The indices and the key of computeVoxels on their own (SpecIndex): one point
   and one voxelBins. *)

\* The values of L and of C in 10^-4 and of H in 10^-2 degree: cell edges, their
\* neighbours, the ends of the axes and values beyond them.
IndexSamplesL == {0, 1, 750, 2999, 3000, 3001, 5000, 6000, 9500, 9999, 10000, 10001}

IndexSamplesC == {0, 1500, 2033, 2900, 3225, 3999, 4000, 4500}

IndexSamplesH == {0, 7200, 18720, 26632, 35999, 36000}

InitIndex ==
    /\ \E L \in IndexSamplesL : \E C \in IndexSamplesC : \E H \in IndexSamplesH :
           \E nB \in VOXEL_MIN..VOXEL_MAX :
               sample = [d |-> [L |-> L, C |-> C, H |-> H], nB |-> nB]
    /\ result = <<>>
    /\ stage = "none"
    /\ NoExtraction
    /\ NoPages
    /\ NoTools

\* kl, kc, kh and key of one turn of the loop of computeVoxels.
ToIndex ==
    /\ stage = "none"
    /\ result' = [kl  |-> BinIndex(sample.d.L, L_EXTENT, sample.nB),
                  kc  |-> BinIndex(sample.d.C, C_EXTENT, sample.nB),
                  kh  |-> BinIndex(sample.d.H, H_EXTENT, sample.nB),
                  key |-> VoxelKey(sample.d, sample.nB)]
    /\ stage' = "index"
    /\ UNCHANGED <<sample, extraction, pages, tools>>

NextIndex == ToIndex

SpecIndex == InitIndex /\ [][NextIndex]_vars

\* floor(v / (extent / n)) of the real numbers when that is below n, else n - 1.
ClampedFloor(v, extent, n) ==
    IF v >= extent THEN n - 1
    ELSE CHOOSE k \in 0..(n - 1) : k * extent <= v * n /\ v * n < (k + 1) * extent

\* C21: each of kl, kc, kh lies in 0..n-1 and is the floor of value / axis width
\* when that is below n, and n - 1 otherwise.
C21_IndexIsClampedFloor ==
    stage = "index" =>
        /\ {result.kl, result.kc, result.kh} \subseteq 0..(sample.nB - 1)
        /\ result.kl = ClampedFloor(sample.d.L, L_EXTENT, sample.nB)
        /\ result.kc = ClampedFloor(sample.d.C, C_EXTENT, sample.nB)
        /\ result.kh = ClampedFloor(sample.d.H, H_EXTENT, sample.nB)

\* The keys of the index triples of a grid of n bins per axis.
KeysOfGrid(n) ==
    {KeyOf(kl, kc, kh) : kl \in 0..(n - 1), kc \in 0..(n - 1), kh \in 0..(n - 1)}

\* C30: for every voxelBins n of the slider the key is injective on the index
\* triples of (0..n-1)^3, the n^3 triples having n^3 keys, and the key of a point
\* is the key of its triple: two points share a map entry iff their triples are
\* the same.  (The grid is counted once per n, where the first sample is indexed.)
C30_KeyInjectiveOnGrid ==
    stage = "index" =>
        /\ {result.kl, result.kc, result.kh} \subseteq 0..(sample.nB - 1)
        /\ result.key = KeyOf(result.kl, result.kc, result.kh)
        /\ sample.d = [L |-> 0, C |-> 0, H |-> 0] =>
               Cardinality(KeysOfGrid(sample.nB)) = sample.nB * sample.nB * sample.nB

\* C30 witness: the point at the origin was indexed in the finest grid, of 40
\* bins per axis and 64000 triples.
C30_Witness ==
    /\ stage = "index"
    /\ sample.nB = VOXEL_MAX
    /\ sample.d = [L |-> 0, C |-> 0, H |-> 0]
    /\ result.key = 0

-----------------------------------------------------------------------------
\* Properties of the normalisation of the tone map.

\* normCount is the value num / den for whole numbers num and den.
NormIs(num, den) == normCount.num * den = num * normCount.den

\* The sets of ten bins that no bin outside exceeds.
TopTens ==
    {S \in SUBSET DOMAIN bins :
        /\ Cardinality(S) = 10
        /\ \A in \in S : \A out \in DOMAIN bins \ S : bins[out] <= bins[in]}

\* C22: when binData ends, normCount is the mean of the ten largest bin counts if
\* ten bins or more hold pixels, the largest count if one to nine do, and 1 if
\* none does; when render ends, the opacity of every sub-bin with pixels is
\* min(1, 0.12 + 0.88 * sqrt(count / normCount)) to within the two thousandths of
\* the rounding: 1 exactly when count >= normCount, whatever the largest count.
C22_NormalisedByTopTenMean ==
    [][/\ (running = "binData" /\ running' = "render") =>
            /\ Cardinality(DOMAIN bins) >= 10 =>
                   \E S \in TopTens : (NormIs(BinSum(S), 10))'
            /\ Cardinality(DOMAIN bins) \in 1..9 =>
                   \E top \in DOMAIN bins :
                       /\ \A key \in DOMAIN bins : bins[key] <= bins[top]
                       /\ (NormIs(bins[top], 1))'
            /\ DOMAIN bins = {} => (NormIs(1, 1))'
       /\ (running = "render" /\ running' = "idle") =>
            \A k \in 1..Len(cellGeom) :
                LET count == cellGeom[k].count
                    s     == cellGeom[k].alpha - 120
                IN  /\ count = 0 => cellGeom[k].alpha = 0
                    /\ count > 0 =>
                           /\ cellGeom[k].alpha \in 120..ALPHA_ONE
                           /\ cellGeom[k].alpha = ALPHA_ONE
                                  <=> count * normCount.den >= normCount.num
                           /\ cellGeom[k].alpha < ALPHA_ONE =>
                                  /\ s * s * normCount.num <= 880 * 880 * count * normCount.den
                                  /\ (s + 2) * (s + 2) * normCount.num
                                         > 880 * 880 * count * normCount.den]_vars

\* render has ended over twelve bins with pixels: normCount is a mean of ten that
\* lies below the largest count, a sub-bin below the largest count is drawn
\* with full opacity, and another with less.
C22_Witness ==
    /\ running = "idle"
    /\ Cardinality(DOMAIN bins) > 10
    /\ normCount.den = 10
    /\ \E key \in DOMAIN bins : bins[key] * normCount.den > normCount.num
    /\ \E k \in 1..Len(cellGeom) :
           /\ cellGeom[k].alpha = ALPHA_ONE
           /\ \E key \in DOMAIN bins : bins[key] > cellGeom[k].count
    /\ \E k \in 1..Len(cellGeom) : cellGeom[k].alpha \in 121..(ALPHA_ONE - 1)

-----------------------------------------------------------------------------
(* oklch_to_rgb on its own (SpecToRgb): one (L, C, H), in gamut or not. *)

\* L and C in Units, H in 10^-6 degree.
ToRgbSamples ==
    {<<L, C, H>> : L \in {0, 30000000, 60000000, 90000000, Unit},
                   C \in {0, 10000000, 20000000, 30000000, 40000000},
                   H \in {30000000 * k : k \in 0..11}}

InitToRgb ==
    /\ sample \in ToRgbSamples
    /\ result = <<>>
    /\ stage = "none"
    /\ NoExtraction
    /\ NoPages
    /\ NoTools

\* r, g, b = oklch_to_rgb(L, C, H)
CallToRgb ==
    /\ stage = "none"
    /\ result' = [rgb |-> oklch_to_rgb(sample[1], sample[2], sample[3])]
    /\ stage' = "rgb"
    /\ UNCHANGED <<sample, extraction, pages, tools>>

NextToRgb == CallToRgb

SpecToRgb == InitToRgb /\ [][NextToRgb]_vars

\* C23: oklch_to_rgb returns whole numbers in 0..255 for every (L, C, H), in
\* gamut or not: those of the linear channels clamped to [0, 1], then encoded
\* and rounded to the nearest whole number.
C23_ClampedNotRejected ==
    stage = "rgb" =>
        \E lin \in {LinearOf(sample[1], sample[2], sample[3])} :
            \A k \in 1..3 :
                /\ result.rgb[k] \in 0..255
                /\ result.rgb[k] = Round255(linear_to_srgb(Max(0, Min(Unit, lin[k]))))

\* A colour out of gamut on both sides was converted: one channel below 0 gave
\* 0 and one above 1 gave 255.
C23_Witness ==
    /\ stage = "rgb"
    /\ \E lin \in {LinearOf(sample[1], sample[2], sample[3])} :
           \E j, k \in 1..3 :
               /\ lin[j] < 0 /\ result.rgb[j] = 0
               /\ lin[k] > Unit /\ result.rgb[k] = 255

-----------------------------------------------------------------------------
(* The slice viewer (the script of visualize_colors_slice.py): the hue wheel, its
   mouse and touch handlers, the throttle of the redraw, the two sliders, and the
   parameters the scatter plot was last drawn with.  The wheel's canvas and the
   hue and range texts, which every handler redraws at once, are left out. *)

\* slice_width of create_slice_viewer, and the value of chromaSlider times 5.
SLICE_WIDTH == 10

MIN_CHROMA == 20

\* Where the pointer is pressed or moved to, <<x, y>> from the centre of the wheel
\* in pixels, y downwards.
PointerStops == {<<140, 0>>, <<30, 140>>, <<-99, -99>>, <<99, -99>>, <<-1, -140>>, <<0, 0>>}

WidthStops == {1, 60}

ChromaStops == {0, 20}

\* getAngleFromEvent(e): Math.atan2(y, x) * 180 / Math.PI + 90, a turn added when
\* negative.
getAngleFromEvent(e) ==
    LET angle == Degrees(Atan2(e[2], e[1])) + TURN \div 4
    IN  IF angle < 0 THEN angle + TURN ELSE angle

InitSlice ==
    /\ sliceWidth = SLICE_WIDTH
    /\ minChroma = MIN_CHROMA
    /\ currentHue = 0
    /\ isDragging = FALSE
    /\ inThrottle = FALSE
    /\ throttleTimers = 0
    /\ plotted = [hue |-> 0, width |-> SLICE_WIDTH, chroma |-> MIN_CHROMA]
    /\ NoExtraction
    /\ NoConversion
    /\ NoMultiview
    /\ NoToneMap
    /\ NoTools

\* updateScatterPlot(), at the end of a handler: the plot is drawn from the values
\* the handler leaves.
updateScatterPlot ==
    plotted' = [hue |-> currentHue', width |-> sliceWidth', chroma |-> minChroma']

\* Mutant: the wrapper never finds the window open.
InWindowNever(flag) == FALSE

\* if (!inThrottle) of the function throttle returns.
InWindow(flag) == flag

\* throttledUpdate(): outside the window the plot is drawn and a window of 50 ms
\* is opened; inside it the call does nothing.
throttledUpdate ==
    IF InWindow(inThrottle)
    THEN UNCHANGED <<plotted, inThrottle, throttleTimers>>
    ELSE /\ updateScatterPlot
         /\ inThrottle' = TRUE
         /\ throttleTimers' = throttleTimers + 1

\* setTimeout(() => inThrottle = false, limit) runs.
ThrottleTimeout ==
    /\ throttleTimers > 0
    /\ throttleTimers' = throttleTimers - 1
    /\ inThrottle' = FALSE
    /\ UNCHANGED <<sliceWidth, minChroma, currentHue, isDragging, plotted, extraction,
                   conversion, multiview, tonemap, tools>>

\* What the mousedown and the touchstart listener do.
Press(e) ==
    /\ UNCHANGED <<sliceWidth, minChroma, extraction, conversion, multiview, tonemap,
                   tools>>
    /\ isDragging' = TRUE
    /\ currentHue' = getAngleFromEvent(e)
    /\ throttledUpdate

\* What the mousemove and the touchmove listener do.
Move(e) ==
    /\ UNCHANGED <<sliceWidth, minChroma, isDragging, extraction, conversion, multiview,
                   tonemap, tools>>
    /\ IF isDragging
       THEN /\ currentHue' = getAngleFromEvent(e)
            /\ throttledUpdate
       ELSE UNCHANGED <<currentHue, plotted, inThrottle, throttleTimers>>

\* What the mouseup and the touchend listener do.
Release ==
    /\ UNCHANGED <<sliceWidth, minChroma, currentHue, inThrottle, throttleTimers,
                   extraction, conversion, multiview, tonemap, tools>>
    /\ isDragging' = FALSE
    /\ updateScatterPlot

MouseDown(e) == Press(e)

MouseMove(e) == Move(e)

MouseUp == Release

MouseLeave ==
    /\ UNCHANGED <<sliceWidth, minChroma, currentHue, inThrottle, throttleTimers,
                   extraction, conversion, multiview, tonemap, tools>>
    /\ IF isDragging
       THEN /\ isDragging' = FALSE
            /\ updateScatterPlot
       ELSE UNCHANGED <<isDragging, plotted>>

TouchStart(e) == Press(e)

TouchMove(e) == Move(e)

TouchEnd == Release

\* The input listener of rangeSlider.
RangeInput(x) ==
    /\ UNCHANGED <<minChroma, currentHue, isDragging, inThrottle, throttleTimers,
                   extraction, conversion, multiview, tonemap, tools>>
    /\ x # sliceWidth
    /\ sliceWidth' = x
    /\ updateScatterPlot

\* The input listener of chromaSlider.
ChromaInput(x) ==
    /\ UNCHANGED <<sliceWidth, currentHue, isDragging, inThrottle, throttleTimers,
                   extraction, conversion, multiview, tonemap, tools>>
    /\ 5 * x # minChroma
    /\ minChroma' = 5 * x
    /\ updateScatterPlot

NextSlice ==
    \/ \E e \in PointerStops : MouseDown(e)
    \/ \E e \in PointerStops : MouseMove(e)
    \/ MouseUp
    \/ MouseLeave
    \/ \E e \in PointerStops : TouchStart(e)
    \/ \E e \in PointerStops : TouchMove(e)
    \/ TouchEnd
    \/ ThrottleTimeout
    \/ \E x \in WidthStops \cup {SLICE_WIDTH} : RangeInput(x)
    \/ \E x \in ChromaStops \cup {MIN_CHROMA \div 5} : ChromaInput(x)

SpecSlice == InitSlice /\ [][NextSlice]_vars

-----------------------------------------------------------------------------
\* Properties of the slice viewer.

\* C26: the 50 ms window is open exactly while one timeout is pending; a handler
\* that changes currentHue is a press or a move of a drag (isDragging is true
\* after it), and its throttledUpdate draws the plot with the new hue if the
\* window is closed and leaves the plot alone if it is open; and whenever no drag
\* is going on, the scatter plot was last drawn with the current currentHue.
C26_ThrottledButCurrentAfterDrag ==
    /\ [](throttleTimers <= 1 /\ (inThrottle <=> throttleTimers = 1))
    /\ [][currentHue' # currentHue =>
             /\ isDragging'
             /\ inThrottle'
             /\ IF inThrottle THEN plotted' = plotted
                ELSE plotted'.hue = currentHue' /\ throttleTimers' = 1]_vars
    /\ [](~isDragging => plotted.hue = currentHue)

\* C26 witness: a drag that moved the hue inside the window, where the redraw
\* was dropped, has ended before the window closed, and the plot shows the hue.
C26_Witness ==
    /\ ~isDragging
    /\ inThrottle
    /\ currentHue # 0
    /\ plotted.hue = currentHue
    /\ sliceWidth # SLICE_WIDTH

=============================================================================
